---- MODULE Spec2Model ----
(***************************************************************************)
(* Traffic-assignment core of sxm_mobility: attribute initialisation       *)
(* (network/attributes.py), the MSA solver (assignment/msa.py) and the     *)
(* scenario / connector catalogue (scenarios/catalog.py).                  *)
(*                                                                         *)
(* Python floats are modelled as exact rationals <<num, den>> (den > 0,    *)
(* lowest terms); rounding is not modelled.  A dictionary key that is      *)
(* absent is the value None (the empty tuple).                             *)
(***************************************************************************)
EXTENDS Integers, Sequences, FiniteSets, TLC

(***************************************************************************)
(* Exact arithmetic standing in for float arithmetic.                      *)
(***************************************************************************)
Abs(n) == IF n < 0 THEN -n ELSE n

RECURSIVE GCD(_, _)
GCD(a, b) == IF b = 0 THEN a ELSE GCD(b, a % b)

Norm(n, d) ==
    LET s == IF d < 0 THEN -1 ELSE 1
        g == GCD(Abs(n), Abs(d))
    IN  <<(s * n) \div g, (s * d) \div g>>

R(n) == <<n, 1>>

RAdd(a, b) ==
    LET g == GCD(a[2], b[2])
    IN  Norm(a[1] * (b[2] \div g) + b[1] * (a[2] \div g), (a[2] \div g) * b[2])

RSub(a, b) == RAdd(a, <<-b[1], b[2]>>)

RMul(a, b) ==
    LET x == Norm(a[1], b[2])
        y == Norm(b[1], a[2])
    IN  <<x[1] * y[1], x[2] * y[2]>>

RDiv(a, b) == RMul(a, Norm(b[2], b[1]))

RLt(a, b) ==
    LET g == GCD(a[2], b[2])
    IN  a[1] * (b[2] \div g) < b[1] * (a[2] \div g)

RLe(a, b) == ~RLt(b, a)

RMax(a, b) == IF RLt(a, b) THEN b ELSE a

RECURSIVE RPow(_, _)
RPow(a, k) == IF k = 0 THEN R(1) ELSE RMul(a, RPow(a, k - 1))

None == <<>>

\* dict.get(key, default)
Get(v, default) == IF v = None THEN default ELSE v

(***************************************************************************)
(* Raw (OSM-like) attribute values: None, a float, a string (a sequence    *)
(* of symbols: the characters "0".."9", ".", " ", ";", "|", unit letters,  *)
(* and highway class names taken as single symbols) or a list.             *)
(***************************************************************************)
PyNone == [t |-> "none"]

PyNum(r) == [t |-> "num", v |-> r]

PyStr(s) == [t |-> "str", v |-> s]

PyList(l) == [t |-> "list", v |-> l]

Digits == {"0", "1", "2", "3", "4", "5", "6", "7", "8", "9"}

DigitVal(c) ==
    CASE c = "0" -> 0 [] c = "1" -> 1 [] c = "2" -> 2 [] c = "3" -> 3
      [] c = "4" -> 4 [] c = "5" -> 5 [] c = "6" -> 6 [] c = "7" -> 7
      [] c = "8" -> 8 [] c = "9" -> 9

RECURSIVE Pow10(_)
Pow10(k) == IF k = 0 THEN 1 ELSE 10 * Pow10(k - 1)

\* str.strip()
RECURSIVE LStrip(_)
LStrip(s) == IF s # <<>> /\ Head(s) = " " THEN LStrip(Tail(s)) ELSE s

RECURSIVE RStrip(_)
RStrip(s) ==
    IF s # <<>> /\ s[Len(s)] = " " THEN RStrip(SubSeq(s, 1, Len(s) - 1)) ELSE s

Strip(s) == RStrip(LStrip(s))

\* the digits of s read as a decimal integer
RECURSIVE DigitsInt(_)
DigitsInt(s) ==
    IF s = <<>> THEN 0
    ELSE 10 * DigitsInt(SubSeq(s, 1, Len(s) - 1)) + DigitVal(s[Len(s)])

\* float(s) for a string over the model's alphabet: an unsigned decimal
\* literal, surrounded by optional blanks; anything else raises ValueError.
FloatOfStr(s) ==
    LET b    == Strip(s)
        dots == {i \in 1..Len(b) : b[i] = "."}
        ok   == /\ \A i \in 1..Len(b) : b[i] \in Digits \cup {"."}
                /\ Cardinality(dots) <= 1
                /\ \E i \in 1..Len(b) : b[i] \in Digits
        dot  == IF dots = {} THEN Len(b) + 1 ELSE CHOOSE i \in dots : TRUE
        ip   == SubSeq(b, 1, dot - 1)
        fp   == SubSeq(b, dot + 1, Len(b))
    IN  IF ok THEN Norm(DigitsInt(ip) * Pow10(Len(fp)) + DigitsInt(fp), Pow10(Len(fp)))
        ELSE None

_safe_float(x, default) ==
    CASE x.t = "num" -> x.v
      [] x.t = "str" -> Get(FloatOfStr(x.v), default)
      [] OTHER       -> default

\* "".join(ch for ch in s if ch.isdigit() or ch == ".")
RECURSIVE DigitsOnly(_)
DigitsOnly(s) ==
    IF s = <<>> THEN <<>>
    ELSE (IF Head(s) \in Digits \cup {"."} THEN <<Head(s)>> ELSE <<>>)
         \o DigitsOnly(Tail(s))

\* s.replace("|", ";").split(";")[0]
RECURSIVE FirstField(_)
FirstField(s) ==
    IF s = <<>> \/ Head(s) \in {";", "|"} THEN <<>>
    ELSE <<Head(s)>> \o FirstField(Tail(s))

\* if isinstance(x, list) and x: x = x[0]
FirstOfList(x) == IF x.t = "list" /\ x.v # <<>> THEN x.v[1] ELSE x

(***************************************************************************)
(* The network: a MultiDiGraph is its node set and a dictionary from edge  *)
(* identifiers <<u, v, key>> to attribute dictionaries.  The raw fields    *)
(* hold raw values; t0, capacity, flow and time hold a float or None.      *)
(***************************************************************************)
EdgeData(length, maxspeed, lanes, highway, travel_time, t0, capacity, flow, time) ==
    [length |-> length, maxspeed |-> maxspeed, lanes |-> lanes,
     highway |-> highway, travel_time |-> travel_time,
     t0 |-> t0, capacity |-> capacity, flow |-> flow, time |-> time]

Edges(G) == DOMAIN G.data

\* G.has_edge(u, v)
HasEdge(G, u, v) == \E e \in Edges(G) : e[1] = u /\ e[2] = v

\* G.has_edge(u, v, key)
HasEdgeKey(G, u, v, key) == <<u, v, key>> \in Edges(G)

\* the keys of G[u][v]
Keys(G, u, v) == {e[3] : e \in {x \in Edges(G) : x[1] = u /\ x[2] = v}}

\* MultiGraph.new_edge_key: len(keydict), incremented while taken
RECURSIVE FreeKey(_, _)
FreeKey(used, k) == IF k \in used THEN FreeKey(used, k + 1) ELSE k

NewEdgeKey(G, u, v) == FreeKey(Keys(G, u, v), Cardinality(Keys(G, u, v)))

\* G.add_edge(u, v, **attrs): also adds the endpoints as nodes
AddEdge(G, u, v, attrs) ==
    [nodes |-> G.nodes \cup {u, v},
     data  |-> [e \in Edges(G) \cup {<<u, v, NewEdgeKey(G, u, v)>>} |->
                  IF e \in Edges(G) THEN G.data[e] ELSE attrs]]

\* G.remove_edge(u, v, key)
RemoveEdge(G, u, v, key) ==
    [nodes |-> G.nodes,
     data  |-> [e \in Edges(G) \ {<<u, v, key>>} |-> G.data[e]]]

(***************************************************************************)
(* network/attributes.py: add_freeflow_time_and_capacity                   *)
(***************************************************************************)
DefaultLengthM == 50

DefaultSpeedKph == 40

MinSpeedKph == 5

DefaultCapPerLane == 900

MinCapacity == 50

\* CAP_PER_LANE.get(str(hw), default_capacity_vph_per_lane)
CapPerLane(hw) ==
    IF hw.t # "str" \/ Len(hw.v) # 1 THEN DefaultCapPerLane
    ELSE CASE hw.v[1] = "motorway"    -> 1800
           [] hw.v[1] = "trunk"       -> 1700
           [] hw.v[1] = "primary"     -> 1400
           [] hw.v[1] = "secondary"   -> 1100
           [] hw.v[1] = "tertiary"    -> 900
           [] hw.v[1] = "residential" -> 600
           [] hw.v[1] = "service"     -> 400
           [] OTHER                   -> DefaultCapPerLane

\* lines 62-73: the speed an edge is given when it carries no travel_time
SpeedKph(data) ==
    LET maxspeed == FirstOfList(data.maxspeed)
        speed    == IF maxspeed.t = "str"
                    THEN _safe_float(PyStr(DigitsOnly(maxspeed.v)), R(DefaultSpeedKph))
                    ELSE _safe_float(maxspeed, R(DefaultSpeedKph))
    IN  RMax(R(MinSpeedKph), speed)

\* lines 54-73
FreeFlowTime(data) ==
    LET length_m == _safe_float(data.length, R(DefaultLengthM))
        t0       == _safe_float(data.travel_time, None)
    IN  IF t0 # None THEN t0
        ELSE RDiv(length_m, RDiv(RMul(SpeedKph(data), R(1000)), R(3600)))

\* lines 75-86
Capacity(data) ==
    LET l1      == FirstOfList(data.lanes)
        l2      == IF l1.t = "str" THEN PyStr(Strip(FirstField(l1.v))) ELSE l1
        lanes_f == RMax(R(1), _safe_float(l2, R(1)))
        hw      == FirstOfList(IF data.highway.t = "none"
                               THEN PyStr(<<"residential">>) ELSE data.highway)
    IN  RMax(R(MinCapacity), RMul(R(CapPerLane(hw)), lanes_f))

\* lines 88-91: the attribute dictionary of one edge after the loop body
InitEdgeAttrs(data) ==
    [data EXCEPT !.t0 = FreeFlowTime(data),
                 !.capacity = Capacity(data),
                 !.flow = Get(data.flow, R(0)),
                 !.time = Get(data.time, FreeFlowTime(data))]

add_freeflow_time_and_capacity(G) ==
    [nodes |-> G.nodes, data |-> [e \in Edges(G) |-> InitEdgeAttrs(G.data[e])]]

(***************************************************************************)
(* assignment/bpr.py: the BPR volume-delay function                        *)
(*     time = t0 * (1 + alpha * (flow / capacity) ^ beta)                  *)
(* with a capacity of 0 replaced by the floor 1.0.                         *)
(***************************************************************************)
bpr_time(t0, flow, capacity, alpha, beta) ==
    LET cap == IF capacity[1] = 0 THEN R(1) ELSE capacity
    IN  RMul(t0, RAdd(R(1), RMul(alpha, RPow(RDiv(flow, cap), beta))))

(***************************************************************************)
(* assignment/msa.py                                                       *)
(***************************************************************************)
\* lines 37-40: the time one edge is given
EdgeTime(data, alpha, beta) ==
    bpr_time(Get(data.t0, R(1)), Get(data.flow, R(0)), Get(data.capacity, R(1)), alpha, beta)

update_edge_times(G, alpha, beta) ==
    [nodes |-> G.nodes,
     data  |-> [e \in Edges(G) |-> [G.data[e] EXCEPT !.time = EdgeTime(G.data[e], alpha, beta)]]]

\* an edge attribute read by name, with the default the caller gives
Attr(data, name, default) ==
    Get(IF name = "time" THEN data.time ELSE data.t0, default)

RECURSIVE RMinOf(_)
RMinOf(S) ==
    LET x == CHOOSE y \in S : TRUE
    IN  IF S = {x} THEN x
        ELSE LET m == RMinOf(S \ {x}) IN IF RLt(x, m) THEN x ELSE m

\* networkx _weight_function on a multigraph: the least weight among the
\* parallel edges u -> v, an edge without the attribute weighing 1
HopWeight(G, u, v, weight) ==
    RMinOf({Attr(G.data[<<u, v, k>>], weight, R(1)) : k \in Keys(G, u, v)})

Successors(G, u) == {e[2] : e \in {x \in Edges(G) : x[1] = u}}

Predecessors(G, u) == {e[1] : e \in {x \in Edges(G) : x[2] = u}}

\* the simple node paths from u to d that avoid the nodes of visited
RECURSIVE PathsFrom(_, _, _, _)
PathsFrom(G, u, d, visited) ==
    IF u = d THEN {<<u>>}
    ELSE UNION {{<<u>> \o p : p \in PathsFrom(G, v, d, visited \cup {v})} :
                  v \in Successors(G, u) \ visited}

RECURSIVE PathCost(_, _, _)
PathCost(G, path, weight) ==
    IF Len(path) < 2 THEN R(0)
    ELSE RAdd(HopWeight(G, path[1], path[2], weight), PathCost(G, Tail(path), weight))

\* nx.shortest_path(G, o, d, weight): every path Dijkstra may return, i.e.
\* the least-weight paths (networkx does not specify which of several
\* equally short paths it returns); {} when d cannot be reached from o
ShortestPaths(G, o, d, weight) ==
    LET ps == PathsFrom(G, o, d, {o})
    IN  {p \in ps : \A q \in ps : RLe(PathCost(G, p, weight), PathCost(G, q, weight))}

\* faulty variant: the first of the parallel edges, whatever its time
BestKeyFirst(G, u, v) == CHOOSE k \in Keys(G, u, v) : \A j \in Keys(G, u, v) : k <= j

\* line 74: min(G[u][v], key=time): the first key of least time in key order
BestKey(G, u, v) ==
    LET t(k) == Get(G.data[<<u, v, k>>].time, R(1))
        best == {k \in Keys(G, u, v) : \A j \in Keys(G, u, v) : RLe(t(k), t(j))}
    IN  CHOOSE k \in best : \A j \in best : k <= j

\* aux[key] += x on a defaultdict(float)
AuxAdd(aux, key, x) ==
    [e \in DOMAIN aux \cup {key} |->
       IF e = key THEN RAdd(IF key \in DOMAIN aux THEN aux[key] ELSE R(0), x)
       ELSE aux[e]]

\* faulty variant: only the first hop of the path is loaded
LoadPathFirstHop(G, aux, path, demand) ==
    IF Len(path) < 2 THEN aux
    ELSE AuxAdd(aux, <<path[1], path[2], BestKey(G, path[1], path[2])>>, demand)

\* lines 72-75: the demand of one OD pair put on the hops of its path
RECURSIVE LoadPath(_, _, _, _)
LoadPath(G, aux, path, demand) ==
    IF Len(path) < 2 THEN aux
    ELSE LoadPath(G,
                  AuxAdd(aux, <<path[1], path[2], BestKey(G, path[1], path[2])>>, demand),
                  Tail(path), demand)

\* nx.shortest_path(G, o, d, weight=weight): the exception raised ("none"
\* when it returns) and the paths it may return
NxShortestPath(G, o, d, weight) ==
    IF o \notin G.nodes \/ d \notin G.nodes THEN [err |-> "NodeNotFound", paths |-> {}]
    ELSE IF ShortestPaths(G, o, d, weight) = {} THEN [err |-> "NetworkXNoPath", paths |-> {}]
    ELSE [err |-> "none", paths |-> ShortestPaths(G, o, d, weight)]

\* faulty variant: only the origin is looked up
SkipsPairOriginOnly(G, o, d) == o \notin G.nodes

\* line 68: the OD pair (o, d) is skipped
SkipsPair(G, o, d) == o \notin G.nodes \/ d \notin G.nodes

\* lines 67-77 from OD pair i on: the outcomes the call can have, each the
\* exception raised ("none" when it returns) and the aux built so far
RECURSIVE AonFrom(_, _, _, _)
AonFrom(G, od, i, aux) ==
    IF i > Len(od) THEN {[err |-> "none", aux |-> aux]}
    ELSE IF SkipsPair(G, od[i][1], od[i][2]) THEN AonFrom(G, od, i + 1, aux)
    ELSE LET sp == NxShortestPath(G, od[i][1], od[i][2], "time")
         IN  IF sp.err # "none" THEN {[err |-> sp.err, aux |-> aux]}
             ELSE UNION {AonFrom(G, od, i + 1, LoadPath(G, aux, p, od[i][3])) :
                           p \in sp.paths}

EmptyAux == [e \in {} |-> R(0)]

\* faulty variant: the routing step writes the flows it assigned
AonGraphAfterLoaded(G, aux) ==
    [nodes |-> G.nodes,
     data  |-> [e \in Edges(G) |->
                  IF e \in DOMAIN aux THEN [G.data[e] EXCEPT !.flow = aux[e]] ELSE G.data[e]]]

\* the network after all_or_nothing_assignment built aux: lines 65-77 read
\* G and write aux only
AonGraphAfter(G, aux) == G

all_or_nothing_assignment(G, od) == AonFrom(G, od, 1, EmptyAux)

\* lines 135-137
MsaInitEdge(data) ==
    [data EXCEPT !.flow = Get(data.flow, R(0)),
                 !.time = Get(data.t0, Get(data.time, R(1)))]

MsaInit(G) ==
    [nodes |-> G.nodes, data |-> [e \in Edges(G) |-> MsaInitEdge(G.data[e])]]

\* faulty variant: the argument check placed after the initialisation loop
MsaEntryLateCheck(G, iters) ==
    [G |-> MsaInit(G), err |-> IF iters < 0 THEN "ValueError" ELSE "none"]

\* lines 122-137: the graph and the exception after the entry of the call
MsaEntry(G, iters) ==
    IF iters < 0 THEN [G |-> G, err |-> "ValueError"]
    ELSE [G |-> MsaInit(G), err |-> "none"]

\* faulty variant: the step is taken away from the auxiliary flow
MsaStepFlowReversed(f, a, k) == RSub(f, RMul(RDiv(R(1), R(k + 1)), RSub(a, f)))

\* lines 143-148: the flow update of iteration k
MsaStepFlow(f, a, k) == RAdd(f, RMul(RDiv(R(1), R(k + 1)), RSub(a, f)))

\* faulty variant: only the edges that carry auxiliary flow are updated
MsaUpdateFlowsRouted(G, aux, k) ==
    [nodes |-> G.nodes,
     data  |-> [e \in Edges(G) |->
                  IF e \in DOMAIN aux
                  THEN [G.data[e] EXCEPT !.flow =
                          MsaStepFlow(Get(G.data[e].flow, R(0)), aux[e], k)]
                  ELSE G.data[e]]]

\* lines 143-148: the flows after iteration k
MsaUpdateFlows(G, aux, k) ==
    [nodes |-> G.nodes,
     data  |-> [e \in Edges(G) |->
                  [G.data[e] EXCEPT !.flow =
                     MsaStepFlow(Get(G.data[e].flow, R(0)),
                                 IF e \in DOMAIN aux THEN aux[e] ELSE R(0), k)]]]

\* faulty variant: the network is returned with the times of the last
\* iteration
MsaFinalizeSkipped(G, alpha, beta) == G

\* lines 150-151: the times recomputed from the final flows
MsaFinalize(G, alpha, beta) == update_edge_times(G, alpha, beta)

(***************************************************************************)
(* scenarios/catalog.py: the scenarios.  Each apply works on H = G.copy()  *)
(* and returns H; the operators below give the value of H.                 *)
(***************************************************************************)
\* max(1.0, speed_kph * 1000.0 / 3600.0)
SpeedMps(speed_kph) == RMax(R(1), RDiv(RMul(speed_kph, R(1000)), R(3600)))

IncreaseCapacityApply(G, u, v, key, pct) ==
    IF HasEdgeKey(G, u, v, key)
    THEN [nodes |-> G.nodes,
          data  |-> [G.data EXCEPT ![<<u, v, key>>].capacity =
                       RMul(Get(G.data[<<u, v, key>>].capacity, R(0)), RAdd(R(1), pct))]]
    ELSE G

\* faulty variant: time computed from the speed in km/h instead of m/s
AddConnectorAttrsKph(length_m, speed_kph, capacity_vph) ==
    EdgeData(PyNum(length_m), PyNone, PyNone, PyNone, PyNone,
             RDiv(length_m, SpeedMps(speed_kph)), capacity_vph, R(0),
             RDiv(length_m, RMax(R(1), speed_kph)))

\* lines 67-76: the attributes of the edge AddConnector adds
AddConnectorAttrs(length_m, speed_kph, capacity_vph) ==
    LET t0 == RDiv(length_m, SpeedMps(speed_kph))
    IN  EdgeData(PyNum(length_m), PyNone, PyNone, PyNone, PyNone,
                 t0, capacity_vph, R(0), t0)

AddConnectorApply(G, u, v, length_m, speed_kph, capacity_vph) ==
    AddEdge(G, u, v, AddConnectorAttrs(length_m, speed_kph, capacity_vph))

ClosureApply(G, u, v, key) ==
    IF HasEdgeKey(G, u, v, key) THEN RemoveEdge(G, u, v, key) ELSE G

ConnectorCapPerLane == 900

ConnectorSpec(a, b, length_m, speed_kph, lanes, oneway) ==
    [a |-> a, b |-> b, length_m |-> length_m, speed_kph |-> speed_kph,
     lanes |-> lanes, oneway |-> oneway]

\* the dataclass defaults speed_kph = 40.0, lanes = 1.0, oneway = False
DefaultSpec(a, b, length_m) == ConnectorSpec(a, b, length_m, R(40), R(1), FALSE)

\* lines 401-415
ConnectorAttrs(spec) ==
    LET t0 == RDiv(spec.length_m, SpeedMps(spec.speed_kph))
    IN  EdgeData(PyNum(spec.length_m), PyNum(spec.speed_kph), PyNum(spec.lanes),
                 PyStr(<<"proposed_connector">>), PyNone,
                 t0, RMul(R(ConnectorCapPerLane), spec.lanes), R(0), t0)

\* lines 417-419: the graph after the in-place edit
apply_connector(G, spec, two_way) ==
    LET G1 == AddEdge(G, spec.a, spec.b, ConnectorAttrs(spec))
    IN  IF two_way /\ ~spec.oneway
        THEN AddEdge(G1, spec.b, spec.a, ConnectorAttrs(spec))
        ELSE G1

(***************************************************************************)
(* scenarios/catalog.py: propose_connector_near_edge.  nodes_df is the     *)
(* dictionary node -> <<lon, lat>> of the rows of the node table.          *)
(***************************************************************************)
GridStepM == 100

\* _haversine_m on the coordinates the model uses: points of one meridian,
\* or of the equator, whose coordinates count arcs of GridStepM metres, so
\* that the great-circle distance is the coordinate difference
_haversine_m(lon1, lat1, lon2, lat2) ==
    CASE lon1 = lon2            -> R(GridStepM * Abs(lat1 - lat2))
      [] lat1 = 0 /\ lat2 = 0   -> R(GridStepM * Abs(lon1 - lon2))

\* sorted(S) for a set of integers
RECURSIVE Sorted(_)
Sorted(S) ==
    IF S = {} THEN <<>>
    ELSE LET m == CHOOSE x \in S : \A y \in S : x <= y
         IN  <<m>> \o Sorted(S \ {m})

\* lines 222-231: seen after the remaining rounds of the expansion
RECURSIVE KHopSeen(_, _, _, _)
KHopSeen(G, seen, frontier, rounds) ==
    IF rounds <= 0 THEN seen
    ELSE LET nxt == UNION {Successors(G, n) \cup Predecessors(G, n) :
                             n \in frontier \cap G.nodes}
         IN  KHopSeen(G, seen \cup nxt, nxt, rounds - 1)

k_hop_neighborhood(G, nodes_df, seed, k_hops) ==
    Sorted(KHopSeen(G, {seed}, {seed}, k_hops) \cap DOMAIN nodes_df)

\* lines 262-265: nx.shortest_path_length(G, a, b, weight="t0"), or 10000
\* when it raises
DetourSec(G, a, b) ==
    LET sp == NxShortestPath(G, a, b, "t0")
    IN  IF sp.err # "none" THEN R(10000)
        ELSE PathCost(G, CHOOSE p \in sp.paths : TRUE, "t0")

Straight(nodes_df, a, b) ==
    _haversine_m(nodes_df[a][1], nodes_df[a][2], nodes_df[b][1], nodes_df[b][2])

\* faulty variant: only the edge a -> b is looked for
SurvivesOneWay(G, nodes_df, a, b, max_straight_m) ==
    /\ a # b
    /\ ~HasEdge(G, a, b)
    /\ RLe(Straight(nodes_df, a, b), max_straight_m)

\* lines 252-260: the pair (a, b) passes the adjacency and distance filters
Survives(G, nodes_df, a, b, max_straight_m) ==
    /\ a # b
    /\ ~(HasEdge(G, a, b) \/ HasEdge(G, b, a))
    /\ RLe(Straight(nodes_df, a, b), max_straight_m)

\* lines 267-268: the tuple (score, a, b, straight_m) of a surviving pair
Candidate(G, nodes_df, a, b) ==
    <<RDiv(DetourSec(G, a, b), RMax(R(10), Straight(nodes_df, a, b))),
      a, b, Straight(nodes_df, a, b)>>

\* lines 249-274 from position (i, j) of the double loop, with the
\* candidates found so far
RECURSIVE ScanPairs(_, _, _, _, _, _, _, _)
ScanPairs(G, nodes_df, Nu, Nv, i, j, cands, lim) ==
    IF i > Len(Nu) THEN cands
    ELSE IF j > Len(Nv) THEN ScanPairs(G, nodes_df, Nu, Nv, i + 1, 1, cands, lim)
    ELSE IF ~Survives(G, nodes_df, Nu[i], Nv[j], lim.max_straight_m)
         THEN ScanPairs(G, nodes_df, Nu, Nv, i, j + 1, cands, lim)
    ELSE IF Len(cands) + 1 >= lim.max_pairs
         THEN Append(cands, Candidate(G, nodes_df, Nu[i], Nv[j]))
    ELSE ScanPairs(G, nodes_df, Nu, Nv, i, j + 1,
                   Append(cands, Candidate(G, nodes_df, Nu[i], Nv[j])), lim)

\* faulty variant: the candidates ordered by their nodes alone
CandBeforeByNode(x, y) ==
    \/ x[2] < y[2]
    \/ x[2] = y[2] /\ x[3] <= y[3]

\* line 283: the order of the key (-score, a, b)
CandBefore(x, y) ==
    \/ RLt(y[1], x[1])
    \/ x[1] = y[1] /\ x[2] < y[2]
    \/ x[1] = y[1] /\ x[2] = y[2] /\ x[3] <= y[3]

\* lines 283-284: candidates[0] after the sort
BestCandidate(cands) ==
    LET S == {cands[i] : i \in 1..Len(cands)}
    IN  CHOOSE x \in S : \A y \in S : CandBefore(x, y)

\* the network after propose_connector_near_edge returned spec: lines
\* 214-285 read G and write none of it
ProposeGraphAfter(G, spec) == G

\* faulty variant: the distance taken between u and itself
FallbackSpecZeroLength(nodes_df, u, v) ==
    IF u \in DOMAIN nodes_df /\ v \in DOMAIN nodes_df
    THEN [err |-> "none", spec |-> DefaultSpec(u, v, Straight(nodes_df, u, u))]
    ELSE [err |-> "KeyError", spec |-> None]

\* lines 276-281: the fallback, the exception raised and the result
FallbackSpec(nodes_df, u, v) ==
    IF u \in DOMAIN nodes_df /\ v \in DOMAIN nodes_df
    THEN [err |-> "none", spec |-> DefaultSpec(u, v, Straight(nodes_df, u, v))]
    ELSE [err |-> "KeyError", spec |-> None]

\* the exception raised ("none" when the call returns) and the result
propose_connector_near_edge(G, nodes_df, u, v, k_hops, max_straight_m, max_pairs) ==
    LET Nu    == k_hop_neighborhood(G, nodes_df, u, k_hops)
        Nv    == k_hop_neighborhood(G, nodes_df, v, k_hops)
        lim   == [max_straight_m |-> max_straight_m, max_pairs |-> max_pairs]
        cands == ScanPairs(G, nodes_df, Nu, Nv, 1, 1, <<>>, lim)
    IN  IF cands = <<>> THEN FallbackSpec(nodes_df, u, v)
        ELSE LET c == BestCandidate(cands)
             IN  [err |-> "none", spec |-> DefaultSpec(c[2], c[3], c[4])]

(***************************************************************************)
(* scenarios/catalog.py: shortest_path_relief_connectors.  p holds the     *)
(* keyword arguments: bottleneck_u, bottleneck_v, node_lookup, k_back,     *)
(* k_fwd, max_straight_m, speed_kph, lanes, per_bottleneck_max.            *)
(***************************************************************************)
\* rows[:n]
Head_(rows, n) == SubSeq(rows, 1, IF n < Len(rows) THEN n ELSE Len(rows))

\* lines 325-335: the windows <<ia, ib>> of path (positions from 1) around
\* the hits of the bottleneck edge, in the order the loops visit them
ReliefWindows(path, p) ==
    LET codes == {h * 10000 + bk * 100 + fw :
                    h \in {i \in 1..(Len(path) - 1) :
                             path[i] = p.bottleneck_u /\ path[i + 1] = p.bottleneck_v},
                    bk \in 1..p.k_back, fw \in 1..p.k_fwd}
        all   == [i \in 1..Cardinality(codes) |->
                    LET c == Sorted(codes)[i]
                    IN  <<(c \div 10000) - ((c % 10000) \div 100),
                          (c \div 10000) + 1 + (c % 100)>>]
    IN  SelectSeq(all, LAMBDA w : w[1] >= 1 /\ w[2] <= Len(path))

\* faulty variant: a later contribution replaces the score of the pair
ReliefAddLast(G, agg, path, w, demand, p) ==
    LET a        == path[w[1]]
        b        == path[w[2]]
        key      == IF a <= b THEN <<a, b>> ELSE <<b, a>>
        straight == Straight(p.node_lookup, a, b)
        saved    == RSub(PathCost(G, SubSeq(path, w[1], w[2]), "time"),
                         RDiv(straight, SpeedMps(p.speed_kph)))
        gain     == RMul(demand, saved)
    IN  IF a = b \/ HasEdge(G, a, b) \/ HasEdge(G, b, a) THEN agg
        ELSE IF a \notin DOMAIN p.node_lookup \/ b \notin DOMAIN p.node_lookup THEN agg
        ELSE IF RLt(p.max_straight_m, straight) \/ RLe(saved, R(0)) THEN agg
        ELSE IF \E i \in 1..Len(agg) : agg[i].key = key
        THEN [i \in 1..Len(agg) |->
                IF agg[i].key = key THEN [agg[i] EXCEPT !.score = gain] ELSE agg[i]]
        ELSE Append(agg, [key |-> key, a |-> a, b |-> b, length_m |-> straight,
                          score |-> gain])

\* lines 337-373: agg after the window w of path is looked at
ReliefAdd(G, agg, path, w, demand, p) ==
    LET a        == path[w[1]]
        b        == path[w[2]]
        key      == IF a <= b THEN <<a, b>> ELSE <<b, a>>
        straight == Straight(p.node_lookup, a, b)
        saved    == RSub(PathCost(G, SubSeq(path, w[1], w[2]), "time"),
                         RDiv(straight, SpeedMps(p.speed_kph)))
        gain     == RMul(demand, saved)
    IN  IF a = b \/ HasEdge(G, a, b) \/ HasEdge(G, b, a) THEN agg
        ELSE IF a \notin DOMAIN p.node_lookup \/ b \notin DOMAIN p.node_lookup THEN agg
        ELSE IF RLt(p.max_straight_m, straight) \/ RLe(saved, R(0)) THEN agg
        ELSE IF \E i \in 1..Len(agg) : agg[i].key = key
        THEN [i \in 1..Len(agg) |->
                IF agg[i].key = key THEN [agg[i] EXCEPT !.score = RAdd(@, gain)] ELSE agg[i]]
        ELSE Append(agg, [key |-> key, a |-> a, b |-> b, length_m |-> straight,
                          score |-> gain])

\* lines 329-373 for one path: its windows from the j-th on
RECURSIVE ReliefPath(_, _, _, _, _, _)
ReliefPath(G, agg, path, j, demand, p) ==
    IF j > Len(ReliefWindows(path, p)) THEN agg
    ELSE ReliefPath(G, ReliefAdd(G, agg, path, ReliefWindows(path, p)[j], demand, p),
                    path, j + 1, demand, p)

\* lines 316-373 from OD pair i on: the values agg can end with, one for
\* each choice of shortest paths
RECURSIVE ReliefFrom(_, _, _, _, _)
ReliefFrom(G, od, i, agg, p) ==
    IF i > Len(od) THEN {agg}
    ELSE LET sp == NxShortestPath(G, od[i][1], od[i][2], "time")
         IN  IF sp.err # "none" THEN ReliefFrom(G, od, i + 1, agg, p)
             ELSE UNION {ReliefFrom(G, od, i + 1, ReliefPath(G, agg, path, 1, od[i][3], p), p) :
                           path \in sp.paths}

\* lines 377-393: the candidates of agg, sorted by score descending (a
\* stable sort), cut at per_bottleneck_max
ReliefOut(agg, p) ==
    LET row(r) == [spec  |-> ConnectorSpec(r.a, r.b, r.length_m, p.speed_kph, p.lanes, FALSE),
                   score |-> r.score]
        RECURSIVE Ins(_, _)
        Ins(rows, x) ==
            IF rows = <<>> THEN <<x>>
            ELSE IF RLt(Head(rows).score, x.score) THEN <<x>> \o rows
            ELSE <<Head(rows)>> \o Ins(Tail(rows), x)
        RECURSIVE Srt(_)
        Srt(rows) ==
            IF rows = <<>> THEN <<>>
            ELSE Ins(Srt(SubSeq(rows, 1, Len(rows) - 1)), rows[Len(rows)])
    IN  Head_(Srt([i \in 1..Len(agg) |-> row(agg[i])]), p.per_bottleneck_max)

\* the network after shortest_path_relief_connectors returned out: the
\* function reads G_time and writes none of it
ReliefGraphAfter(G, out) == G

\* the lists shortest_path_relief_connectors(G_time, od, **p) can return
shortest_path_relief_connectors(G, od, p) ==
    {ReliefOut(agg, p) : agg \in ReliefFrom(G, od, 1, <<>>, p)}

(***************************************************************************)
(* demand/od_generation.py                                                 *)
(***************************************************************************)
\* _HIGHWAY_WEIGHT.get(str(hw), 1.0)
HighwayWeight(hw) ==
    IF hw.t # "str" \/ Len(hw.v) # 1 THEN R(1)
    ELSE CASE hw.v[1] = "motorway"    -> R(5)
           [] hw.v[1] = "trunk"       -> R(4)
           [] hw.v[1] = "primary"     -> R(3)
           [] hw.v[1] = "secondary"   -> R(2)
           [] hw.v[1] = "tertiary"    -> <<3, 2>>
           [] hw.v[1] = "residential" -> R(1)
           [] hw.v[1] = "service"     -> <<3, 5>>
           [] OTHER                   -> R(1)

\* lines 95-99
_edge_importance(data) ==
    HighwayWeight(FirstOfList(IF data.highway.t = "none"
                              THEN PyStr(<<"residential">>) ELSE data.highway))

\* the sum of f over the set S
RECURSIVE RSumOver(_, _)
RSumOver(S, f) ==
    IF S = {} THEN R(0)
    ELSE LET x == CHOOSE y \in S : TRUE IN RAdd(f[x], RSumOver(S \ {x}, f))

\* lines 102-117: 1.0 plus the importance of every in-edge and out-edge
node_weights_from_graph(G) ==
    [n \in G.nodes |->
       LET imp == [e \in Edges(G) |-> _edge_importance(G.data[e])]
       IN  RAdd(R(1), RAdd(RSumOver({e \in Edges(G) : e[2] = n}, imp),
                           RSumOver({e \in Edges(G) : e[1] = n}, imp)))]

\* line 148: w_list, by node
WList(G, weights) ==
    LET w == IF weights = None THEN node_weights_from_graph(G) ELSE weights
    IN  [n \in G.nodes |-> IF n \in DOMAIN w THEN w[n] ELSE R(1)]

\* sum(raw_demands)
RECURSIVE RawSum(_)
RawSum(draws) == IF draws = <<>> THEN R(0) ELSE RAdd(Head(draws).r, RawSum(Tail(draws)))

\* faulty variant: the raw demands are returned unscaled
ScaleDemandsRaw(draws, total_demand_vph) ==
    [i \in 1..Len(draws) |-> <<draws[i].o, draws[i].d, draws[i].r>>]

\* lines 162-167: the raw demands rescaled to the requested total
ScaleDemands(draws, total_demand_vph) ==
    LET raw_sum == IF draws # <<>> THEN RawSum(draws) ELSE R(1)
        scale   == IF RLt(R(0), raw_sum) THEN RDiv(total_demand_vph, raw_sum) ELSE R(0)
    IN  [i \in 1..Len(draws) |-> <<draws[i].o, draws[i].d, RMul(draws[i].r, scale)>>]

\* lines 133-169.  draws[i] holds what the generator yields in iteration i:
\* the origin o, the first destination d # o, the raw demand r
generate_od_weighted_total(G, n_pairs, total_demand_vph, weights, draws) ==
    IF n_pairs < 0 \/ RLt(total_demand_vph, R(0)) THEN [err |-> "ValueError", od |-> <<>>]
    ELSE IF Cardinality(G.nodes) < 2 /\ n_pairs > 0 THEN [err |-> "ValueError", od |-> <<>>]
    ELSE [err |-> "none", od |-> ScaleDemands(draws, total_demand_vph)]

\* faulty variant: pairs whose scaled demand is 0 are dropped
ScaleOdDropsEmpty(pairs, factor) ==
    SelectSeq([i \in 1..Len(pairs) |-> <<pairs[i][1], pairs[i][2], RMul(pairs[i][3], factor)>>],
              LAMBDA p : p[3] # R(0))

\* scale_od(od, factor): the same pairs, every demand multiplied by factor
scale_od(pairs, factor) ==
    [i \in 1..Len(pairs) |-> <<pairs[i][1], pairs[i][2], RMul(pairs[i][3], factor)>>]

(***************************************************************************)
(* assignment/metrics.py: KPIs of a solved network                         *)
(*     total delay = sum over edges of flow * (time - t0)                  *)
(* in vehicle-hours, the unit its callers take it in (run_baseline.py      *)
(* line 78), flow being per hour and time in seconds.                      *)
(***************************************************************************)
\* flow * (time - t0) of one edge
DelayContribution(data) ==
    RMul(Get(data.flow, R(0)),
         RDiv(RSub(Get(data.time, R(0)), Get(data.t0, R(0))), R(3600)))

total_delay(G) == RSumOver(Edges(G), [e \in Edges(G) |-> DelayContribution(G.data[e])])

\* the row of the bottleneck table for edge e
BottleneckRow(G, e) ==
    [u |-> e[1], v |-> e[2], key |-> e[3],
     flow |-> Get(G.data[e].flow, R(0)), capacity |-> G.data[e].capacity,
     v_c |-> RDiv(Get(G.data[e].flow, R(0)), G.data[e].capacity),
     delay |-> DelayContribution(G.data[e])]

\* edge identifiers in ascending order
IdBefore(x, y) ==
    \/ x.u < y.u
    \/ x.u = y.u /\ x.v < y.v
    \/ x.u = y.u /\ x.v = y.v /\ x.key < y.key

\* the ranking order: delay descending, then v_c descending, then edge id
RanksBefore(x, y) ==
    \/ RLt(y.delay, x.delay)
    \/ x.delay = y.delay /\ RLt(y.v_c, x.v_c)
    \/ x.delay = y.delay /\ x.v_c = y.v_c /\ IdBefore(x, y)

\* the rows of S in ranking order
RECURSIVE Ranked(_)
Ranked(S) ==
    IF S = {} THEN <<>>
    ELSE LET first == CHOOSE x \in S : \A y \in S \ {x} : RanksBefore(x, y)
         IN  <<first>> \o Ranked(S \ {first})

\* top_bottlenecks(G, n): the first n rows of the ranking of all edges
top_bottlenecks(G, n) == Head_(Ranked({BottleneckRow(G, e) : e \in Edges(G)}), n)

(***************************************************************************)
(* experiments/run_bottleneck_bypass.py: the bottleneck table re-sorted    *)
(***************************************************************************)
TOP_N_BOTTLENECKS == 10

\* the sort key (delay, v_c) of x is greater than that of y
KeyGreater(x, y) ==
    \/ RLt(y.delay, x.delay)
    \/ x.delay = y.delay /\ RLt(y.v_c, x.v_c)

\* x put into rows, sorted descending, behind the rows of equal key
RECURSIVE InsertDescending(_, _)
InsertDescending(rows, x) ==
    IF rows = <<>> THEN <<x>>
    ELSE IF KeyGreater(x, Head(rows)) THEN <<x>> \o rows
    ELSE <<Head(rows)>> \o InsertDescending(Tail(rows), x)

\* faulty variant: ascending=True
RECURSIVE SortValuesAscending(_)
SortValuesAscending(rows) ==
    IF rows = <<>> THEN <<>>
    ELSE LET rest == SortValuesAscending(SubSeq(rows, 1, Len(rows) - 1))
             x    == rows[Len(rows)]
             n    == Cardinality({i \in 1..Len(rest) : ~KeyGreater(rest[i], x)})
         IN  SubSeq(rest, 1, n) \o <<x>> \o SubSeq(rest, n + 1, Len(rest))

\* line 152: sort_values(["delay", "v_c"], ascending=False), a stable sort
RECURSIVE SortValues(_)
SortValues(rows) ==
    IF rows = <<>> THEN <<>>
    ELSE InsertDescending(SortValues(SubSeq(rows, 1, Len(rows) - 1)), rows[Len(rows)])

(***************************************************************************)
(* experiments/run_scenarios.py with scenarios/runner.py and               *)
(* scenarios/evaluator.py: a solve run to its end, the scenarios of a run  *)
(* and the row reported for each.  Of the KPIs the delay is modelled; the  *)
(* code takes TSTT along the same path.                                    *)
(***************************************************************************)
\* msa.py lines 139-151 from iteration k on: the outcomes of the call, each
\* the exception raised ("none" when it returns) and the graph left
RECURSIVE MsaLoop(_, _, _, _, _, _)
MsaLoop(G, pairs, k, iters, alpha, beta) ==
    IF k >= iters THEN {[G |-> MsaFinalize(G, alpha, beta), err |-> "none"]}
    ELSE LET G1 == update_edge_times(G, alpha, beta)
         IN  UNION {IF out.err # "none" THEN {[G |-> G1, err |-> out.err]}
                    ELSE MsaLoop(MsaUpdateFlows(G1, out.aux, k), pairs, k + 1, iters,
                                 alpha, beta) :
                      out \in all_or_nothing_assignment(G1, pairs)}

msa_traffic_assignment(G, pairs, iters, alpha, beta) ==
    LET entry == MsaEntry(G, iters)
    IN  IF entry.err # "none" THEN {entry}
        ELSE MsaLoop(entry.G, pairs, 0, iters, alpha, beta)

\* evaluator.py: the KPIs of a solved network
score_graph(G) == [delay |-> total_delay(G)]

\* the delays a solve of G with the OD list pairs can report
SolvedDelays(G, pairs, iters, alpha, beta) ==
    {score_graph(r.G).delay :
       r \in {x \in msa_traffic_assignment(G, pairs, iters, alpha, beta) : x.err = "none"}}

Scenario(type, u, v, key, pct, c) ==
    [type |-> type, u |-> u, v |-> v, key |-> key, pct |-> pct, connector |-> c]

\* scenario.apply(base_graph)
ScenarioApply(G, s) ==
    CASE s.type = "IncreaseCapacity" -> IncreaseCapacityApply(G, s.u, s.v, s.key, s.pct)
      [] s.type = "Closure" -> ClosureApply(G, s.u, s.v, s.key)
      [] OTHER -> AddConnectorApply(G, s.u, s.v, s.connector.length_m,
                                    s.connector.speed_kph, s.connector.capacity_vph)

\* runner.py: the scenario applied to the copy it is given, the copy solved
\* and scored
run_scenario(base_graph, pairs, s, iters, alpha, beta) ==
    {[err |-> r.err, scores |-> score_graph(r.G)] :
       r \in msa_traffic_assignment(ScenarioApply(base_graph, s), pairs, iters, alpha, beta)}

\* list(base_G.edges(keys=True)): the edges in the order they were added
RECURSIVE EdgeList(_)
EdgeList(S) ==
    IF S = {} THEN <<>>
    ELSE LET e == CHOOSE x \in S : \A y \in S \ {x} :
                    \/ x[1] < y[1]
                    \/ x[1] = y[1] /\ x[2] < y[2]
                    \/ x[1] = y[1] /\ x[2] = y[2] /\ x[3] < y[3]
         IN  <<e>> \o EdgeList(S \ {e})

\* run_scenarios.py lines 89-125: the scenarios of the run
ScenarioList(G, cfg) ==
    LET edges == EdgeList(Edges(G))
        nodes == Sorted(G.nodes)
    IN  [i \in 1..(IF cfg.cap_top_k < Len(edges) THEN cfg.cap_top_k ELSE Len(edges)) |->
           Scenario("IncreaseCapacity", edges[i][1], edges[i][2], edges[i][3],
                    cfg.cap_pct, None)]
        \o (IF cfg.do_closure /\ edges # <<>>
            THEN <<Scenario("Closure", edges[1][1], edges[1][2], edges[1][3], None, None)>>
            ELSE <<>>)
        \o (IF cfg.do_connector /\ Len(nodes) >= 2
            THEN <<Scenario("AddConnector", nodes[1], nodes[Len(nodes)], 0, None,
                            cfg.connector)>>
            ELSE <<>>)

\* lines 146-157: the row reported for a scenario
ResultRow(s, scores, baseline_delay) ==
    [scenario_type |-> s.type, delay |-> scores.delay, baseline_delay |-> baseline_delay,
     delta_delay |-> RSub(scores.delay, baseline_delay)]

(***************************************************************************)
(* experiments/run_bottleneck_bypass.py: the sweep over the bottlenecks.   *)
(* The state of the loop: results_rows, seen_connectors, the exception     *)
(* that ended it ("none" while it runs) and the last scenario network G1.  *)
(***************************************************************************)
SweepState(rows, seen, err, G1) ==
    [results_rows |-> rows, seen_connectors |-> seen, err |-> err, G1 |-> G1]

\* faulty variant: the key keeps the direction of the connector
DirectedKey(a, b) == <<a, b>>

\* line 197: undirected_key
UndirectedKey(a, b) == IF a <= b THEN <<a, b>> ELSE <<b, a>>

\* lines 226-246: the row of bottleneck i of the table
SweepRow(i, r, spec, scen_delay, base_delay) ==
    [i |-> i, baseline_bottleneck_u |-> r.u, baseline_bottleneck_v |-> r.v,
     connector_a |-> spec.a, connector_b |-> spec.b,
     scenario_delay |-> scen_delay, delta_delay |-> RSub(scen_delay, base_delay)]

\* lines 164-265: the iteration for row i of btn_top, begun in state st: the
\* states it can end in.  p holds G, nodes, od, the table, base_delay and
\* the solver settings.
SweepIteration(st, i, p) ==
    LET r  == p.btn_top[i]
        pr == propose_connector_near_edge(p.G, p.nodes, r.u, r.v, p.k_hops, R(300), 800)
    IN  IF pr.err # "none" THEN {st}
        ELSE IF pr.spec.a \notin DOMAIN p.nodes \/ pr.spec.b \notin DOMAIN p.nodes THEN {st}
        ELSE IF UndirectedKey(pr.spec.a, pr.spec.b) \in st.seen_connectors THEN {st}
        ELSE LET seen == st.seen_connectors \cup {UndirectedKey(pr.spec.a, pr.spec.b)}
             IN  {IF s.err # "none" THEN SweepState(st.results_rows, seen, s.err, s.G)
                  ELSE SweepState(st.results_rows \o
                                    <<SweepRow(i, r, pr.spec, total_delay(s.G), p.base_delay)>>,
                                  seen, "none", s.G) :
                    s \in msa_traffic_assignment(apply_connector(p.G, pr.spec, TRUE), p.od,
                                                 p.iters, p.alpha, p.beta)}

\* the loop run over the rows from i on in the order of the table
RECURSIVE SweepFrom(_, _, _)
SweepFrom(st, i, p) ==
    IF i > Len(p.btn_top) \/ st.err # "none" THEN {st}
    ELSE UNION {SweepFrom(t, i + 1, p) : t \in SweepIteration(st, i, p)}

(***************************************************************************)
(* Bounds and inputs.                                                      *)
(***************************************************************************)
MaxIters == 2

MaxHops == 1

MaxSolves == 2

MaxCopies == 1

\* the largest n_pairs an OD list is generated with
MaxGenPairs == 2

\* (alpha, beta) as config.py may set them; 0.15 is the default alpha
BprSettings ==
    {[alpha |-> R(0), beta |-> 2], [alpha |-> <<3, 20>>, beta |-> 2],
     [alpha |-> R(1), beta |-> 1]}

\* an edge as the ingestion step delivers it
Raw(length, maxspeed, lanes, highway, travel_time) ==
    EdgeData(length, maxspeed, lanes, highway, travel_time, None, None, None, None)

\* the triangle of tests/test_pipeline_sanity.py (lengths, speeds and lanes
\* as there), with highway classes whose capacities share their factors
TriGraph ==
    [nodes |-> {1, 2, 3},
     data  |-> (<<1, 2, 0>> :> Raw(PyNum(R(500)), PyStr(<<"5", "0">>), PyStr(<<"2">>),
                                   PyStr(<<"residential">>), PyNone)
             @@ <<2, 3, 0>> :> Raw(PyNum(R(800)), PyStr(<<"4", "0">>), PyStr(<<"1">>),
                                   PyStr(<<"tertiary">>), PyNone)
             @@ <<1, 3, 0>> :> Raw(PyNum(R(1200)), PyStr(<<"3", "0">>), PyStr(<<"1">>),
                                   PyStr(<<"residential">>), PyNone))]

\* a strongly connected network with parallel edges 1 -> 2 and the forms
\* OSM attributes take: numbers, strings with units, lists, missing values
TownGraph ==
    [nodes |-> {1, 2, 3, 4},
     data  |-> (<<1, 2, 0>> :> Raw(PyNum(R(100)), PyNum(R(36)), PyNone, PyNone, PyNone)
             @@ <<1, 2, 1>> :> Raw(PyNum(R(100)),
                                   PyList(<<PyStr(<<"7", "2">>), PyStr(<<"3", "6">>)>>),
                                   PyList(<<PyStr(<<"2">>)>>), PyStr(<<"motorway">>), PyNone)
             @@ <<2, 1, 0>> :> Raw(PyNum(R(100)), PyStr(<<"3", "6", " ", "m", "p", "h">>),
                                   PyStr(<<"1", ";", "2">>), PyStr(<<"tertiary">>), PyNone)
             @@ <<2, 3, 0>> :> Raw(PyNum(R(100)), PyNone, PyStr(<<"x">>),
                                   PyStr(<<"residential">>), PyNum(R(9)))
             @@ <<3, 4, 0>> :> Raw(PyNone, PyStr(<<"m", "p", "h">>), PyNum(R(1)),
                                   PyList(<<PyStr(<<"service">>)>>), PyNone)
             @@ <<4, 1, 0>> :> Raw(PyNum(R(200)), PyNum(R(72)), PyNone,
                                   PyStr(<<"living_street">>), PyNone))]

\* node table rows: node -> <<lon, lat>>
TriNodes == (1 :> <<0, 0>>) @@ (2 :> <<0, 5>>) @@ (3 :> <<0, 12>>)

TownNodes == (1 :> <<0, 0>>) @@ (2 :> <<0, 1>>) @@ (3 :> <<0, 2>>) @@ (4 :> <<0, 3>>)

\* OD lists: (origin, destination, demand); node 9 is in no network
TriODs ==
    { <<<<1, 3, R(1800)>>>>,
      <<<<1, 9, R(600)>>, <<1, 3, R(1800)>>>>,
      <<<<1, 3, R(1800)>>, <<3, 1, R(600)>>>> }

TownODs ==
    { <<<<1, 3, R(1200)>>, <<4, 2, R(600)>>>>,
      <<<<9, 2, R(600)>>, <<1, 3, R(1200)>>, <<2, 2, R(600)>>>> }

\* a two-way street 1 - 2 - 3 - 4 - 5 whose middle segment 2 - 3 winds: it is
\* four times as long as its endpoints are apart
LineGraph ==
    [nodes |-> {1, 2, 3, 4, 5},
     data  |-> [e \in {<<1, 2, 0>>, <<2, 1, 0>>, <<2, 3, 0>>, <<3, 2, 0>>,
                       <<3, 4, 0>>, <<4, 3, 0>>, <<4, 5, 0>>, <<5, 4, 0>>} |->
                  Raw(PyNum(R(IF {e[1], e[2]} = {2, 3} THEN 400 ELSE 100)), PyNum(R(36)),
                      PyNone, PyStr(<<"residential">>), PyNone)]]

LineNodes == [n \in 1..5 |-> <<0, n>>]

\* the second list is one generate_od_weighted_total returns for
\* total_demand_vph = 0: every demand is 0
LineODs ==
    { <<<<1, 4, R(600)>>, <<1, 5, R(300)>>, <<5, 1, R(300)>>>>,
      <<<<1, 4, R(0)>>, <<5, 2, R(0)>>>> }

\* one-way streets 1 -> 2 -> 3 and 4 -> 2: no path leads to node 4
JunctionGraph ==
    [nodes |-> {1, 2, 3, 4},
     data  |-> [e \in {<<1, 2, 0>>, <<2, 3, 0>>, <<4, 2, 0>>} |->
                  Raw(PyNum(R(100)), PyNum(R(36)), PyNone, PyStr(<<"residential">>), PyNone)]]

JunctionODs == { <<<<1, 3, R(600)>>, <<4, 3, R(300)>>>> }

Fixtures ==
    {[G |-> JunctionGraph, nodes_df |-> TownNodes, od |-> od] : od \in JunctionODs}
    \cup {[G |-> TriGraph, nodes_df |-> TriNodes, od |-> od] : od \in TriODs}
    \cup {[G |-> TownGraph, nodes_df |-> TownNodes, od |-> od] : od \in TownODs}
    \cup {[G |-> LineGraph, nodes_df |-> LineNodes, od |-> od] : od \in LineODs}

(***************************************************************************)
(* State.  heap maps object identities to graph values, ref maps the       *)
(* program variables G (the base network) and H (the network a scenario    *)
(* or G.copy() returned; 0 before there is one) to object identities.      *)
(* settings holds the configured BPR parameters (config.py), call the      *)
(* operation in progress or last completed with its result, solves the     *)
(* number of solver calls made.                                            *)
(***************************************************************************)
VARIABLES heap, ref, od, nodes_df, settings, phase, call, solves, copies

vars == <<heap, ref, od, nodes_df, settings, phase, call, solves, copies>>

NoArgs == [x \in {} |-> 0]

Call(op, pc, var, args, err, ret) ==
    [op |-> op, pc |-> pc, var |-> var, args |-> args, err |-> err, ret |-> ret]

Idle == call.pc # "loop"

\* the graph the current call works on
Target == heap[ref[call.var]]

Solved == call.op = "msa" /\ call.pc = "returned"

\* faulty variant: no copy is made, the result is the graph object itself
GraphAlias(src) == src

\* G.copy(): the identity of the new graph object
GraphCopy(src) == 2

Init ==
    /\ \E f \in Fixtures :
         /\ heap = (1 :> f.G)
         /\ od = f.od
         /\ nodes_df = f.nodes_df
    /\ settings \in BprSettings
    /\ ref = [G |-> 1, H |-> 0]
    /\ phase = "raw"
    /\ call = Call("load", "returned", "G", NoArgs, "none", None)
    /\ solves = 0
    /\ copies = 0

\* network/build_graph.py line 21
BuildGraph ==
    /\ phase = "raw"
    /\ heap' = [heap EXCEPT ![1] = add_freeflow_time_and_capacity(heap[1])]
    /\ phase' = "ready"
    /\ call' = Call("build", "returned", "G", NoArgs, "none", None)
    /\ UNCHANGED <<ref, od, nodes_df, settings, solves, copies>>

\* msa_traffic_assignment(var, od, iters, alpha, beta), lines 122-137; the
\* base network is solved before scenario networks are derived from it
\* (experiments/run_scenarios.py lines 76-86)
MsaCall(var, iters, alpha, beta) ==
    /\ phase = "ready" /\ Idle /\ ref[var] # 0 /\ solves < MaxSolves
    /\ var = "G" => ref.H = 0
    /\ LET entry == MsaEntry(heap[ref[var]], iters)
           args  == [iters |-> iters, alpha |-> alpha, beta |-> beta, k |-> 0]
       IN  /\ heap' = [heap EXCEPT ![ref[var]] = entry.G]
           /\ call' = Call("msa", IF entry.err = "none" THEN "loop" ELSE "raised",
                           var, args, entry.err, None)
    /\ solves' = solves + 1
    /\ UNCHANGED <<ref, od, nodes_df, settings, phase, copies>>

\* one iteration of the loop of lines 139-148
MsaIterate ==
    /\ call.pc = "loop" /\ call.args.k < call.args.iters
    /\ LET G1 == update_edge_times(heap[ref[call.var]], call.args.alpha, call.args.beta)
       IN  \E out \in all_or_nothing_assignment(G1, od) :
             IF out.err # "none"
             THEN /\ heap' = [heap EXCEPT ![ref[call.var]] = G1]
                  /\ call' = [call EXCEPT !.pc = "raised", !.err = out.err]
             ELSE /\ heap' = [heap EXCEPT ![ref[call.var]] =
                                MsaUpdateFlows(G1, out.aux, call.args.k)]
                  /\ call' = [call EXCEPT !.args.k = call.args.k + 1]
    /\ UNCHANGED <<ref, od, nodes_df, settings, phase, solves, copies>>

\* lines 150-151
MsaReturn ==
    /\ call.pc = "loop" /\ call.args.k >= call.args.iters
    /\ heap' = [heap EXCEPT ![ref[call.var]] =
                  MsaFinalize(heap[ref[call.var]], call.args.alpha, call.args.beta)]
    /\ call' = [call EXCEPT !.pc = "returned"]
    /\ UNCHANGED <<ref, od, nodes_df, settings, phase, solves, copies>>

\* H = <the graph object id, holding G1>: the result of a copy, bound to H
Bind(id, G1, op, args) ==
    /\ heap' = [o \in DOMAIN heap \cup {id} |-> IF o = id THEN G1 ELSE heap[o]]
    /\ ref' = [ref EXCEPT !.H = id]
    /\ call' = Call(op, "returned", "H", args, "none", None)
    /\ copies' = copies + 1
    /\ UNCHANGED <<od, nodes_df, settings, phase, solves>>

\* H = IncreaseCapacity(u, v, key, pct).apply(G)
ApplyIncreaseCapacity(u, v, key, pct) ==
    /\ phase = "ready" /\ Idle /\ copies < MaxCopies
    /\ Bind(GraphCopy(ref.G), IncreaseCapacityApply(heap[ref.G], u, v, key, pct),
            "IncreaseCapacity", [u |-> u, v |-> v, key |-> key, pct |-> pct])

\* H = AddConnector(u, v, length_m, speed_kph, capacity_vph).apply(G)
ApplyAddConnector(u, v, length_m, speed_kph, capacity_vph) ==
    /\ phase = "ready" /\ Idle /\ copies < MaxCopies
    /\ Bind(GraphCopy(ref.G),
            AddConnectorApply(heap[ref.G], u, v, length_m, speed_kph, capacity_vph),
            "AddConnector",
            [u |-> u, v |-> v, length_m |-> length_m, speed_kph |-> speed_kph,
             capacity_vph |-> capacity_vph])

\* H = Closure(u, v, key).apply(G)
ApplyClosure(u, v, key) ==
    /\ phase = "ready" /\ Idle /\ copies < MaxCopies
    /\ Bind(GraphCopy(ref.G), ClosureApply(heap[ref.G], u, v, key),
            "Closure", [u |-> u, v |-> v, key |-> key])

\* G1 = G.copy() (experiments/run_bottleneck_bypass.py line 215)
CopyGraph ==
    /\ phase = "ready" /\ Idle /\ copies < MaxCopies
    /\ Bind(GraphCopy(ref.G), heap[ref.G], "copy", NoArgs)

\* apply_connector(G1, s, two_way=two_way) on the fresh copy (line 216):
\* edits the graph in place
ApplyConnector(s, two_way) ==
    /\ phase = "ready" /\ call.op = "copy"
    /\ heap' = [heap EXCEPT ![ref.H] = apply_connector(heap[ref.H], s, two_way)]
    /\ call' = Call("apply_connector", "returned", "H",
                    [spec |-> s, two_way |-> two_way], "none", None)
    /\ UNCHANGED <<ref, od, nodes_df, settings, phase, solves, copies>>

\* propose_connector_near_edge(G, nodes_df, u, v, k_hops, max_straight_m, max_pairs);
\* it reads the topology and t0 of G only, which nothing changes after the
\* build, so it is explored on the built network
Propose(u, v, k_hops, max_straight_m, max_pairs) ==
    /\ phase = "ready" /\ Idle /\ solves = 0 /\ copies = 0
    /\ LET r == propose_connector_near_edge(heap[ref.G], nodes_df, u, v, k_hops,
                                            max_straight_m, max_pairs)
       IN  /\ call' = Call("propose", IF r.err = "none" THEN "returned" ELSE "raised", "G",
                           [u |-> u, v |-> v, k_hops |-> k_hops,
                            max_straight_m |-> max_straight_m, max_pairs |-> max_pairs],
                           r.err, r.spec)
           /\ heap' = [heap EXCEPT ![ref.G] = ProposeGraphAfter(heap[ref.G], r.spec)]
    /\ UNCHANGED <<ref, od, nodes_df, settings, phase, solves, copies>>

\* the network a read-only component is called on: the built network or
\* the network a solve of the base returned
Readable == phase = "ready" /\ copies = 0 /\ (call.op = "build" \/ (Solved /\ call.var = "G"))

\* aux = all_or_nothing_assignment(G, od)
Route ==
    /\ Readable
    /\ \E out \in all_or_nothing_assignment(heap[ref.G], od) :
         /\ call' = Call("all_or_nothing_assignment",
                         IF out.err = "none" THEN "returned" ELSE "raised", "G",
                         NoArgs, out.err, out.aux)
         /\ heap' = [heap EXCEPT ![ref.G] = AonGraphAfter(heap[ref.G], out.aux)]
    /\ UNCHANGED <<ref, od, nodes_df, settings, phase, solves, copies>>

\* out = shortest_path_relief_connectors(G, od, **p)
Relief(p) ==
    /\ Readable
    /\ \E out \in shortest_path_relief_connectors(heap[ref.G], od, p) :
         /\ call' = Call("relief", "returned", "G", p, "none", out)
         /\ heap' = [heap EXCEPT ![ref.G] = ReliefGraphAfter(heap[ref.G], out)]
    /\ UNCHANGED <<ref, od, nodes_df, settings, phase, solves, copies>>

\* df_b = top_bottlenecks(G, n) on the network the solver returned
\* (experiments/run_baseline.py lines 57-66)
RankBottlenecks(n) ==
    /\ Solved /\ call.var = "G"
    /\ call' = Call("top_bottlenecks", "returned", "G", [n |-> n], "none",
                    top_bottlenecks(heap[ref.G], n))
    /\ UNCHANGED <<heap, ref, od, nodes_df, settings, phase, solves, copies>>

\* btn_top = btn.sort_values(...).head(TOP_N_BOTTLENECKS)
\* (experiments/run_bottleneck_bypass.py line 152)
ResortBottlenecks ==
    /\ call.op = "top_bottlenecks"
    /\ call' = Call("sort_values", "returned", "G", [btn |-> call.ret], "none",
                    Head_(SortValues(call.ret), TOP_N_BOTTLENECKS))
    /\ UNCHANGED <<heap, ref, od, nodes_df, settings, phase, solves, copies>>

(***************************************************************************)
(* The inputs of the operations.                                           *)
(***************************************************************************)
\* n of top_bottlenecks: 50 in run_baseline.py
TopNs == {1, 5, 50}

\* keyword arguments of shortest_path_relief_connectors: a bottleneck edge
\* of the network, the window sizes, the distance threshold (350.0 by
\* default), the connector's speed and lanes, the cut
ReliefArgs ==
    {[bottleneck_u |-> e[1], bottleneck_v |-> e[2], node_lookup |-> nodes_df,
      k_back |-> kb, k_fwd |-> MaxHops + 1, max_straight_m |-> R(350), speed_kph |-> R(40),
      lanes |-> R(1), per_bottleneck_max |-> cut] :
        e \in {<<2, 3>>, <<1, 2>>}, kb \in 1..(MaxHops + 1), cut \in {1, 8}}
\* edge identifiers a scenario may name (run_scenarios.py takes the first
\* edges of the network): two edges of both networks and one that names no
\* edge
EdgeIds == {<<1, 2, 0>>, <<2, 3, 0>>, <<3, 1, 0>>}

Pcts == {<<1, 4>>, R(-1)}

ConnectorPairs == {<<3, 1>>, <<4, 2>>}

ConnectorInputs ==
    {[length_m |-> R(350), speed_kph |-> R(40), capacity_vph |-> R(900)],
     [length_m |-> R(100), speed_kph |-> R(3), capacity_vph |-> R(0)]}

\* the specs a caller writes by hand (scripts/pages/experiments)
UserSpecs ==
    {ConnectorSpec(1, 3, R(200), R(36), R(2), FALSE),
     ConnectorSpec(3, 1, R(200), R(36), R(1), TRUE),
     ConnectorSpec(2, 4, R(100), R(72), R(0), FALSE)}

MaxStraights == {R(100), R(300)}

MaxPairs == {1, 800}

Next ==
    \/ BuildGraph
    \/ \E var \in {"G", "H"}, iters \in -1..MaxIters :
         MsaCall(var, iters, settings.alpha, settings.beta)
    \/ MsaIterate
    \/ MsaReturn
    \/ \E e \in EdgeIds, pct \in Pcts : ApplyIncreaseCapacity(e[1], e[2], e[3], pct)
    \/ \E p \in ConnectorPairs, c \in ConnectorInputs :
         ApplyAddConnector(p[1], p[2], c.length_m, c.speed_kph, c.capacity_vph)
    \/ \E e \in EdgeIds : ApplyClosure(e[1], e[2], e[3])
    \/ CopyGraph
    \/ \E s \in UserSpecs : ApplyConnector(s, TRUE)
    \/ \E e \in Edges(heap[ref.G]), k_hops \in 0..MaxHops, m \in MaxStraights, mp \in MaxPairs :
         Propose(e[1], e[2], k_hops, m, mp)
    \/ \E n \in TopNs : RankBottlenecks(n)
    \/ ResortBottlenecks
    \/ Route
    \/ \E p \in ReliefArgs : Relief(p)

Spec == Init /\ [][Next]_vars

(***************************************************************************)
(* The library functions called on their own: a call is pending with its   *)
(* arguments in call.args, and the function's step puts what it returns    *)
(* in call.ret.                                                            *)
(***************************************************************************)
BuiltGraphs == {add_freeflow_time_and_capacity(TriGraph), add_freeflow_time_and_capacity(TownGraph)}

Pending(op, G, args) ==
    /\ heap = (1 :> G)
    /\ call = Call(op, "pending", "G", args, "none", None)

\* returning ret, or raising err, from the pending call
Return(err, ret) ==
    /\ call' = [call EXCEPT !.pc = IF err = "none" THEN "returned" ELSE "raised",
                            !.err = err, !.ret = ret]
    /\ UNCHANGED <<heap, ref, od, nodes_df, settings, phase, solves, copies>>

\* total_demand_vph as the callers pass it (run_baseline.py line 48)
GenTotals == {R(-1), R(0), R(1000)}

\* the weights argument: None, or a dictionary that leaves nodes out
GenWeights == {None, (1 :> R(2)) @@ (2 :> R(0))}

\* values of rng.random() + 1e-6
RawDraws == {<<1, 4>>, <<3, 4>>}

\* what one iteration of the sampling loop can yield: rng.choices picks
\* nodes of positive weight only
Draws(G, weights) ==
    LET pos == {n \in G.nodes : RLt(R(0), WList(G, weights)[n])}
    IN  {[o |-> o, d |-> d, r |-> r] : o \in pos, d \in pos, r \in RawDraws} \ 
        {[o |-> o, d |-> o, r |-> r] : o \in pos, r \in RawDraws}

GenerateOdInit ==
    \E G \in BuiltGraphs, n_pairs \in -1..MaxGenPairs, total \in GenTotals, w \in GenWeights :
      \E draws \in [1..(IF n_pairs < 0 THEN 0 ELSE n_pairs) -> Draws(G, w)] :
        Pending("generate_od", G,
                [n_pairs |-> n_pairs, total_demand_vph |-> total, weights |-> w,
                 draws |-> draws])

\* od = generate_od_weighted_total(G, n_pairs, total_demand_vph, weights=weights)
GenerateOd ==
    /\ call.op = "generate_od" /\ call.pc = "pending"
    /\ LET r == generate_od_weighted_total(heap[1], call.args.n_pairs,
                                           call.args.total_demand_vph,
                                           call.args.weights, call.args.draws)
       IN  Return(r.err, r.od)

\* OD lists to rescale: the list of tests/test_demand_reduction.py and the
\* fixtures' lists
ScaleLists == {<<<<1, 2, R(100)>>, <<2, 3, R(50)>>>>, <<>>} \cup TriODs \cup TownODs

\* settings.od_factor - r (run_demand_reduction.py line 58)
ScaleFactors == {R(1), <<4, 5>>, <<1, 2>>, R(0)}

ScaleOdInit ==
    \E pairs \in ScaleLists, f1 \in ScaleFactors, f2 \in ScaleFactors :
        Pending("scale_od", add_freeflow_time_and_capacity(TriGraph),
                [od |-> pairs, f1 |-> f1, f2 |-> f2])

\* out = scale_od(od, f1)
ScaleOd ==
    /\ call.op = "scale_od" /\ call.pc = "pending"
    /\ call' = [call EXCEPT !.pc = "scaled", !.ret = <<scale_od(call.args.od, call.args.f1)>>]
    /\ UNCHANGED <<heap, ref, od, nodes_df, settings, phase, solves, copies>>

\* out2 = scale_od(out, f2)
ScaleOdAgain ==
    /\ call.op = "scale_od" /\ call.pc = "scaled"
    /\ Return("none", call.ret \o <<scale_od(call.ret[1], call.args.f2)>>)

\* raw values an OSM attribute takes, listed: missing, numbers (0
\* included), parsable and unparsable strings, lists
RawLengths == <<PyNone, PyNum(R(0)), PyNum(R(500)), PyStr(<<"x">>), PyStr(<<"1", "2", ".", "5">>)>>

RawSpeeds ==
    <<PyNone, PyNum(R(0)), PyStr(<<"5", "0">>), PyStr(<<"m", "p", "h">>),
     PyStr(<<"1", ".", "2", ".", "3">>), PyList(<<PyStr(<<"3", "0", " ", "m", "p", "h">>)>>),
     PyList(<<>>)>>

RawLanes ==
    <<PyNone, PyNum(R(0)), PyStr(<<"2", "|", "3">>), PyStr(<<" ", "x">>),
     PyList(<<PyStr(<<"3">>), PyStr(<<"1">>)>>)>>

RawHighways ==
    <<PyNone, PyStr(<<"motorway">>), PyStr(<<"living_street">>),
     PyList(<<PyStr(<<"service">>), PyStr(<<"residential">>)>>)>>

RawTravelTimes == <<PyNone, PyNum(R(9)), PyStr(<<"x">>)>>

\* G = add_freeflow_time_and_capacity(G) pending on a one-edge network
InitAttributesInit ==
    \E l \in DOMAIN RawLengths, ms \in DOMAIN RawSpeeds, ln \in DOMAIN RawLanes,
       hw \in DOMAIN RawHighways, tt \in DOMAIN RawTravelTimes :
        Pending("add_freeflow_time_and_capacity",
                [nodes |-> {1, 2},
                 data  |-> (<<1, 2, 0>> :> Raw(RawLengths[l], RawSpeeds[ms], RawLanes[ln],
                                               RawHighways[hw], RawTravelTimes[tt]))],
                NoArgs)

\* networks whose edges already carry a capacity or a t0: a built network, a
\* built network a scenario changed, and an edge whose source data supply
\* the capacity
InitializedGraphs ==
    LET G == add_freeflow_time_and_capacity(TriGraph)
    IN  {G}
        \cup {IncreaseCapacityApply(G, e[1], e[2], e[3], pct) : e \in EdgeIds, pct \in Pcts}
        \cup {apply_connector(G, spec, TRUE) : spec \in UserSpecs}
        \cup {[nodes |-> {1, 2},
               data  |-> (<<1, 2, 0>> :>
                            EdgeData(PyNum(R(500)), PyNone, PyNone, hw, PyNone,
                                     None, R(2000), None, None))] :
                hw \in {PyNone, PyStr(<<"motorway">>)}}

\* G = add_freeflow_time_and_capacity(G) pending on such a network
ReinitAttributesInit ==
    \E G \in InitializedGraphs : Pending("add_freeflow_time_and_capacity", G, NoArgs)

\* G = add_freeflow_time_and_capacity(G): edits G in place
InitAttributes ==
    /\ call.op = "add_freeflow_time_and_capacity" /\ call.pc = "pending"
    /\ heap' = [heap EXCEPT ![1] = add_freeflow_time_and_capacity(heap[1])]
    /\ call' = [call EXCEPT !.pc = "returned"]
    /\ UNCHANGED <<ref, od, nodes_df, settings, phase, solves, copies>>

InitFn ==
    /\ ref = [G |-> 1, H |-> 0]
    /\ od = <<>>
    /\ nodes_df = <<>>
    /\ settings = [alpha |-> <<3, 20>>, beta |-> 2]
    /\ phase = "ready"
    /\ solves = 0
    /\ copies = 0
    /\ \/ GenerateOdInit
       \/ ScaleOdInit
       \/ InitAttributesInit
       \/ ReinitAttributesInit

NextFn ==
    \/ GenerateOd
    \/ ScaleOd
    \/ ScaleOdAgain
    \/ InitAttributes

SpecFn == InitFn /\ [][NextFn]_vars

(***************************************************************************)
(* demand/od_generation.py: generate_od_weighted_total step by step.  The  *)
(* call's position is call.pc ("pending" before the argument checks, "for" *)
(* at the head of the loop of line 153, "while" at the test of line 156,   *)
(* "scaled" after line 163),                                               *)
(* call.args holds the arguments, the locals i, o, d, scale and w_list,    *)
(* the node weights lines 143-148 derive from the arguments, and call.ret  *)
(* the pairs and raw demands appended so far.  rng.choices draws any node  *)
(* of positive weight.                                                     *)
(***************************************************************************)
\* the weights argument: None, a dictionary that leaves a node out, and a
\* dictionary that gives a positive weight to node 1 only
GenLoopWeights(G) ==
    {None, (1 :> R(2)) @@ (2 :> R(0)), [n \in G.nodes |-> IF n = 1 THEN R(2) ELSE R(0)]}

\* rng.choices(node_list, weights=w_list, k=1)[0]
Choices(w_list) == {n \in DOMAIN w_list : RLt(R(0), w_list[n])}

\* the networks of the step-by-step calls: three and four nodes
GenGraphs ==
    {add_freeflow_time_and_capacity(TriGraph), add_freeflow_time_and_capacity(JunctionGraph)}

InitGen ==
    /\ ref = [G |-> 1, H |-> 0]
    /\ od = <<>>
    /\ nodes_df = <<>>
    /\ settings = [alpha |-> <<3, 20>>, beta |-> 2]
    /\ phase = "ready"
    /\ solves = 0
    /\ copies = 0
    /\ \E G \in GenGraphs, n_pairs \in -1..MaxGenPairs, total \in GenTotals :
         \E w \in GenLoopWeights(G) :
           Pending("generate_od", G,
                   [n_pairs |-> n_pairs, total_demand_vph |-> total, weights |-> w,
                    w_list |-> WList(G, w), i |-> 0, o |-> 0, d |-> 0, scale |-> R(0)])

\* lines 133-139
GenEnter ==
    /\ call.op = "generate_od" /\ call.pc = "pending"
    /\ IF \/ call.args.n_pairs < 0 \/ RLt(call.args.total_demand_vph, R(0))
          \/ (Cardinality(heap[1].nodes) < 2 /\ call.args.n_pairs > 0)
       THEN call' = [call EXCEPT !.pc = "raised", !.err = "ValueError"]
       ELSE call' = [call EXCEPT !.pc = "for", !.ret = <<>>]
    /\ UNCHANGED <<heap, ref, od, nodes_df, settings, phase, solves, copies>>

\* lines 153-155: the next iteration draws o and d
GenDrawPair ==
    /\ call.op = "generate_od" /\ call.pc = "for" /\ call.args.i < call.args.n_pairs
    /\ \E o \in Choices(call.args.w_list), d \in Choices(call.args.w_list) :
         call' = [call EXCEPT !.pc = "while", !.args.o = o, !.args.d = d]
    /\ UNCHANGED <<heap, ref, od, nodes_df, settings, phase, solves, copies>>

\* lines 156-157: d == o, d is drawn again
GenRedraw ==
    /\ call.op = "generate_od" /\ call.pc = "while" /\ call.args.d = call.args.o
    /\ \E d \in Choices(call.args.w_list) : call' = [call EXCEPT !.args.d = d]
    /\ UNCHANGED <<heap, ref, od, nodes_df, settings, phase, solves, copies>>

\* lines 159-160: d != o, the pair and its raw demand are appended
GenAppend ==
    /\ call.op = "generate_od" /\ call.pc = "while" /\ call.args.d # call.args.o
    /\ \E r \in RawDraws :
         call' = [call EXCEPT !.pc = "for", !.args.i = call.args.i + 1,
                              !.ret = Append(call.ret, [o |-> call.args.o,
                                                        d |-> call.args.d, r |-> r])]
    /\ UNCHANGED <<heap, ref, od, nodes_df, settings, phase, solves, copies>>

\* lines 162-163: the loop is over, raw_sum and scale are computed
GenScale ==
    /\ call.op = "generate_od" /\ call.pc = "for" /\ call.args.i >= call.args.n_pairs
    /\ \E raw_sum \in {IF call.ret # <<>> THEN RawSum(call.ret) ELSE R(1)} :
         call' = [call EXCEPT !.pc = "scaled",
                              !.args.scale = IF RLt(R(0), raw_sum)
                                             THEN RDiv(call.args.total_demand_vph, raw_sum)
                                             ELSE R(0)]
    /\ UNCHANGED <<heap, ref, od, nodes_df, settings, phase, solves, copies>>

\* lines 165-169: the list of (o, d, r * scale) is built and returned
GenReturn ==
    /\ call.op = "generate_od" /\ call.pc = "scaled"
    /\ call' = [call EXCEPT !.pc = "returned",
                            !.ret = [i \in 1..Len(call.ret) |->
                                       <<call.ret[i].o, call.ret[i].d,
                                         RMul(call.ret[i].r, call.args.scale)>>]]
    /\ UNCHANGED <<heap, ref, od, nodes_df, settings, phase, solves, copies>>

NextGen ==
    \/ GenEnter
    \/ GenDrawPair
    \/ GenRedraw
    \/ GenAppend
    \/ GenScale
    \/ GenReturn

\* the call keeps running, and a draw that can come out different from o
\* does so after finitely many tries
SpecGen == InitGen /\ [][NextGen]_vars /\ WF_vars(NextGen)

(***************************************************************************)
(* experiments/run_scenarios.py: main().  call.args holds what the run     *)
(* finds on disk and in the settings: the newest baseline run (whether     *)
(* there is one, whether its KPI file can be read and the delay in it,     *)
(* whether its OD file exists and the list in it), the list the generator  *)
(* yields under the settings of this run, and the scenario settings.       *)
(* call.ret holds main's variables baseline_run, baseline_delay and        *)
(* results_rows.                                                           *)
(***************************************************************************)
\* settings.od_total_demand_vph of a run
RunTotals == {R(600), R(1200)}

\* the OD lists generate_od_weighted_total yields for G under the settings
\* and seed of a run, here one pair from node 1
RunOdLists(G) ==
    {generate_od_weighted_total(G, 1, total, None, <<d>>).od :
       total \in RunTotals, d \in {x \in Draws(G, None) : x.o = 1 /\ x.r = <<1, 4>>}}

BaselineRun(exists, kpi_ok, delay, od_exists, pairs) ==
    [exists |-> exists, kpi_ok |-> kpi_ok, delay |-> delay, od_exists |-> od_exists,
     od |-> pairs]

\* what list_runs("baseline") can find: nothing, or the folder of a run of
\* run_baseline.py, which saved the OD list it generated and the delay of
\* the base network solved with it (run_baseline.py lines 45-76); either
\* file may since be gone or unreadable
BaselineRuns(G) ==
    {BaselineRun(FALSE, FALSE, R(0), FALSE, <<>>)}
    \cup {BaselineRun(TRUE, kpi_ok, delay, od_exists, pairs) :
            kpi_ok \in BOOLEAN, od_exists \in BOOLEAN,
            <<pairs, delay>> \in
              UNION {{<<l, t>> : t \in SolvedDelays(G, l, MaxIters, <<3, 20>>, 2)} :
                       l \in RunOdLists(G)}}

\* scenarios_cap_top_k, scenarios_cap_pct, scenarios_do_closure,
\* scenarios_do_connector and the connector settings (config.py lines 60-66)
ScenarioSettings ==
    {[cap_top_k |-> 1, cap_pct |-> <<1, 4>>, do_closure |-> c, do_connector |-> TRUE,
      connector |-> [length_m |-> R(350), speed_kph |-> R(40), capacity_vph |-> R(900)]] :
       c \in BOOLEAN}

RunLocals(baseline_run, baseline_delay, rows) ==
    [baseline_run |-> baseline_run, baseline_delay |-> baseline_delay, results_rows |-> rows]

InitRun ==
    /\ ref = [G |-> 1, H |-> 0]
    /\ od = <<>>
    /\ nodes_df = <<>>
    /\ settings = [alpha |-> <<3, 20>>, beta |-> 2]
    /\ phase = "ready"
    /\ solves = 0
    /\ copies = 0
    /\ \E G \in BuiltGraphs :
         /\ heap = (1 :> G)
         /\ \E b \in BaselineRuns(G), g \in RunOdLists(G), cfg \in ScenarioSettings :
              call = Call("run_scenarios", "start", "G",
                          [baseline |-> b, generated |-> g, cfg |-> cfg], "none",
                          RunLocals(FALSE, R(0), <<>>))

\* lines 43-56: the baseline run and its KPIs
LoadBaseline ==
    /\ call.op = "run_scenarios" /\ call.pc = "start"
    /\ LET b == call.args.baseline
       IN  call' = [call EXCEPT !.pc = "kpi",
                                !.ret = IF b.exists /\ b.kpi_ok
                                        THEN RunLocals(TRUE, b.delay, <<>>)
                                        ELSE RunLocals(FALSE, R(0), <<>>)]
    /\ UNCHANGED <<heap, ref, od, nodes_df, settings, phase, solves, copies>>

\* lines 61-74: the OD list of the run
LoadOd ==
    /\ call.op = "run_scenarios" /\ call.pc = "kpi"
    /\ od' = IF call.ret.baseline_run /\ call.args.baseline.od_exists
             THEN call.args.baseline.od
             ELSE call.args.generated
    /\ call' = [call EXCEPT !.pc = "od"]
    /\ UNCHANGED <<heap, ref, nodes_df, settings, phase, solves, copies>>

\* lines 76-87: the baseline solved inside the run when none was loaded
ComputeBaseline ==
    /\ call.op = "run_scenarios" /\ call.pc = "od"
    /\ IF call.ret.baseline_run
       THEN call' = [call EXCEPT !.pc = "scenarios"]
       ELSE \E r \in msa_traffic_assignment(heap[ref.G], od, MaxIters,
                                            settings.alpha, settings.beta) :
              IF r.err # "none"
              THEN call' = [call EXCEPT !.pc = "raised", !.err = r.err]
              ELSE call' = [call EXCEPT !.pc = "scenarios",
                                        !.ret.baseline_delay = score_graph(r.G).delay]
    /\ UNCHANGED <<heap, ref, od, nodes_df, settings, phase, solves, copies>>

\* lines 130-162: one iteration of the loop over the scenarios
RunScenario ==
    /\ call.op = "run_scenarios" /\ call.pc = "scenarios"
    /\ LET scenarios == ScenarioList(heap[ref.G], call.args.cfg)
           i == Len(call.ret.results_rows) + 1
       IN  /\ i <= Len(scenarios)
           /\ \E res \in run_scenario(heap[ref.G], od, scenarios[i], MaxIters,
                                      settings.alpha, settings.beta) :
                IF res.err # "none"
                THEN call' = [call EXCEPT !.pc = "raised", !.err = res.err]
                ELSE call' = [call EXCEPT !.ret.results_rows =
                                @ \o <<ResultRow(scenarios[i], res.scores,
                                                 call.ret.baseline_delay)>>]
    /\ UNCHANGED <<heap, ref, od, nodes_df, settings, phase, solves, copies>>

\* lines 173-190: the rows written
FinishRun ==
    /\ call.op = "run_scenarios" /\ call.pc = "scenarios"
    /\ Len(call.ret.results_rows) = Len(ScenarioList(heap[ref.G], call.args.cfg))
    /\ call' = [call EXCEPT !.pc = "returned"]
    /\ UNCHANGED <<heap, ref, od, nodes_df, settings, phase, solves, copies>>

NextRun ==
    \/ LoadBaseline
    \/ LoadOd
    \/ ComputeBaseline
    \/ RunScenario
    \/ FinishRun

SpecRun == InitRun /\ [][NextRun]_vars

(***************************************************************************)
(* experiments/run_bottleneck_bypass.py: main().  The iterations of the    *)
(* sweep are taken in any order: call.ret.done holds the rows of the table *)
(* already processed.  call.args holds what the loop reads: the network,   *)
(* the node table, the OD list and the bottleneck table of the baseline    *)
(* run, base_delay and the settings.                                       *)
(***************************************************************************)
\* the bottleneck table the baseline run left: top_bottlenecks(G, n) of the
\* solved base network, re-sorted and cut (lines 151-152)
BtnTops(G, pairs, n) ==
    {Head_(SortValues(top_bottlenecks(r.G, n)), TOP_N_BOTTLENECKS) :
       r \in {x \in msa_traffic_assignment(G, pairs, MaxIters, <<3, 20>>, 2) : x.err = "none"}}

SweepFixtures ==
    {[G |-> add_freeflow_time_and_capacity(f.G), nodes_df |-> f.nodes_df, od |-> f.od] :
       f \in Fixtures}

InitSweep ==
    /\ ref = [G |-> 1, H |-> 0]
    /\ settings = [alpha |-> <<3, 20>>, beta |-> 2]
    /\ phase = "ready"
    /\ solves = 0
    /\ copies = 0
    /\ \E f \in SweepFixtures, n \in TopNs, k_hops \in 1..(MaxHops + 1) :
         \E btn_top \in BtnTops(f.G, f.od, n) :
           /\ heap = (1 :> f.G)
           /\ od = f.od
           /\ nodes_df = f.nodes_df
           /\ call = Call("bottleneck_bypass", "start", "G",
                          [G |-> f.G, nodes |-> f.nodes_df, od |-> f.od, btn_top |-> btn_top,
                           k_hops |-> k_hops, base_delay |-> R(0), iters |-> MaxIters,
                           alpha |-> settings.alpha, beta |-> settings.beta],
                          "none",
                          [st |-> SweepState(<<>>, {}, "none", None), done |-> {}])

\* lines 154-158: the baseline assignment, on a copy
SweepBaseline ==
    /\ call.op = "bottleneck_bypass" /\ call.pc = "start"
    /\ \E r \in msa_traffic_assignment(heap[ref.G], od, call.args.iters,
                                       call.args.alpha, call.args.beta) :
         /\ heap' = [o \in DOMAIN heap \cup {GraphCopy(ref.G)} |->
                       IF o = GraphCopy(ref.G) THEN r.G ELSE heap[o]]
         /\ call' = IF r.err # "none"
                    THEN [call EXCEPT !.pc = "raised", !.err = r.err]
                    ELSE [call EXCEPT !.pc = "sweep", !.args.base_delay = total_delay(r.G)]
    /\ ref' = [ref EXCEPT !.H = GraphCopy(ref.G)]
    /\ UNCHANGED <<od, nodes_df, settings, phase, solves, copies>>

\* lines 164-265: one iteration, for a row of the table not yet processed
SweepBottleneck(i) ==
    /\ call.op = "bottleneck_bypass" /\ call.pc = "sweep"
    /\ i \in DOMAIN call.args.btn_top \ call.ret.done
    /\ \E t \in SweepIteration(call.ret.st, i,
                               [call.args EXCEPT !.G = heap[ref.G], !.nodes = nodes_df,
                                                 !.od = od]) :
         /\ heap' = IF t.G1 = call.ret.st.G1 THEN heap
                    ELSE [heap EXCEPT ![GraphCopy(ref.G)] = t.G1]
         /\ call' = [call EXCEPT !.pc = IF t.err # "none" THEN "raised" ELSE "sweep",
                                 !.err = t.err,
                                 !.ret = [st |-> t, done |-> call.ret.done \cup {i}]]
    /\ UNCHANGED <<ref, od, nodes_df, settings, phase, solves, copies>>

\* lines 267-271: the rows written
SweepFinish ==
    /\ call.op = "bottleneck_bypass" /\ call.pc = "sweep"
    /\ call.ret.done = DOMAIN call.args.btn_top
    /\ call' = [call EXCEPT !.pc = "returned"]
    /\ UNCHANGED <<heap, ref, od, nodes_df, settings, phase, solves, copies>>

NextSweep ==
    \/ SweepBaseline
    \/ \E i \in 1..TOP_N_BOTTLENECKS : SweepBottleneck(i)
    \/ SweepFinish

SpecSweep == InitSweep /\ [][NextSweep]_vars

(***************************************************************************)
(* Properties.                                                             *)
(***************************************************************************)
\* the OD pairs whose endpoints are both nodes of G
PresentPairs(G, pairs) ==
    SelectSeq(pairs, LAMBDA p : p[1] \in G.nodes /\ p[2] \in G.nodes)

\* C1: the solver never raises because an OD pair with both endpoints in
\* the network has no directed path from origin to destination.
C1_UnroutablePairNeverRaises ==
    ~(call.op = "msa" /\ call.pc = "raised" /\ call.err = "NetworkXNoPath")

\* C2: when msa_traffic_assignment returns from a call with iters = 0,
\* every edge has flow 0 and time equal to its t0.
C2_ZeroItersGivesFreeFlow ==
    (Solved /\ call.args.iters = 0) =>
        \A e \in Edges(Target) :
            Target.data[e].flow = R(0) /\ Target.data[e].time = Target.data[e].t0

\* C3: a call with iters < 0 raises ValueError, and the step that raises
\* it leaves every graph as it was.
C3_NegativeItersRaisesBeforeWriting ==
    /\ [](call.op = "msa" /\ call.args.iters < 0
            => call.pc = "raised" /\ call.err = "ValueError")
    /\ [][call'.op = "msa" /\ call'.err = "ValueError" => heap' = heap]_vars

\* C3 witness: the call raised on a graph the initialisation loop would
\* have changed.
C3_Witness ==
    /\ call.op = "msa" /\ call.err = "ValueError"
    /\ MsaInit(Target) # Target

\* C4: once the attributes are initialised, every edge of every graph has
\* time >= t0.
C4_TimeAtLeastFreeFlow ==
    phase = "ready" =>
        \A id \in DOMAIN heap : \A e \in Edges(heap[id]) :
            RLe(heap[id].data[e].t0, heap[id].data[e].time)

\* C4 witness: a solved network with an added connector on which
\* congestion has raised the time of an edge above its t0.
C4_Witness ==
    /\ Solved /\ call.var = "H" /\ call.args.iters >= 1
    /\ Edges(heap[ref.G]) # Edges(heap[ref.H]) /\ Edges(heap[ref.G]) \subseteq Edges(heap[ref.H])
    /\ \E e \in Edges(Target) : RLt(Target.data[e].t0, Target.data[e].time)

ScenarioOps == {"IncreaseCapacity", "AddConnector", "Closure"}

\* C5: a step that applies a scenario, and a step of a solve of the
\* network the scenario returned, leave the base network unchanged.
C5_ScenarioLeavesBaseUnchanged ==
    [][(call'.op \in ScenarioOps \/ (call'.op = "msa" /\ call'.var = "H"))
          => heap'[ref'.G] = heap[ref.G]]_vars

\* C5 witness: a closure scenario was applied to a solved baseline and
\* solved; the scenario network's flows differ from the baseline's.
C5_Witness ==
    /\ Solved /\ call.var = "H" /\ call.args.iters >= 1
    /\ Edges(heap[ref.H]) # Edges(heap[ref.G]) /\ Edges(heap[ref.H]) \subseteq Edges(heap[ref.G])
    /\ \E e \in Edges(heap[ref.G]) : heap[ref.G].data[e].flow # R(0)
    /\ \E e \in Edges(heap[ref.H]) : heap[ref.H].data[e].flow # heap[ref.G].data[e].flow

\* the graph the routing step of the next iteration runs on
RoutingInput == update_edge_times(Target, call.args.alpha, call.args.beta)

\* C6: in every routing step, an OD pair with an endpoint outside the
\* network does not make the step raise NodeNotFound, and the step has the
\* outcomes it has on the OD list without such pairs.
C6_MissingEndpointPairsAreSkipped ==
    (call.op = "msa" /\ call.pc = "loop" /\ call.args.k < call.args.iters) =>
        /\ \A out \in all_or_nothing_assignment(RoutingInput, od) : out.err # "NodeNotFound"
        /\ all_or_nothing_assignment(RoutingInput, od)
             = all_or_nothing_assignment(RoutingInput, PresentPairs(RoutingInput, od))

\* C6 witness: the list holds a pair with a missing endpoint, and a solve
\* of it has put flow on an edge.
C6_Witness ==
    /\ PresentPairs(Target, od) # od
    /\ Solved /\ call.args.iters >= 1
    /\ \E e \in Edges(Target) : RLt(R(0), Target.data[e].flow)

\* an edge x -> y of G with flow 0 and time = t0 = length / speed
FreshEdge(G, x, y, length_m, speed_kph) ==
    \E k \in Keys(G, x, y) :
        /\ G.data[<<x, y, k>>].flow = R(0)
        /\ G.data[<<x, y, k>>].t0 = RDiv(length_m, SpeedMps(speed_kph))
        /\ G.data[<<x, y, k>>].time = G.data[<<x, y, k>>].t0

\* C8: after a connector is added between a and b, by AddConnector.apply
\* or by apply_connector, the network has the new edge a -> b and, unless
\* the connector is one-way, b -> a, each with flow 0 and
\* time = t0 = length / speed.
C8_ConnectorAddedInBothDirections ==
    /\ call.op = "AddConnector" =>
         /\ FreshEdge(Target, call.args.u, call.args.v, call.args.length_m, call.args.speed_kph)
         /\ FreshEdge(Target, call.args.v, call.args.u, call.args.length_m, call.args.speed_kph)
    /\ call.op = "apply_connector" =>
         LET s == call.args.spec
         IN  /\ FreshEdge(Target, s.a, s.b, s.length_m, s.speed_kph)
             /\ ~s.oneway => FreshEdge(Target, s.b, s.a, s.length_m, s.speed_kph)

\* C9: an operation given a non-positive capacity (a connector capacity or
\* lane count <= 0, a capacity change leaving an edge's capacity <= 0)
\* raises, and every edge of a network handed to the solver has
\* capacity > 0.
C9_NonPositiveCapacityRejected ==
    /\ (call.op = "AddConnector" /\ RLe(call.args.capacity_vph, R(0))) => call.pc = "raised"
    /\ (call.op = "apply_connector" /\ RLe(call.args.spec.lanes, R(0))) => call.pc = "raised"
    /\ (call.op = "IncreaseCapacity" /\ RLe(call.args.pct, R(-1))
          /\ HasEdgeKey(heap[ref.G], call.args.u, call.args.v, call.args.key))
         => call.pc = "raised"
    /\ call.op = "msa" =>
         \A e \in Edges(Target) : RLt(R(0), Get(Target.data[e].capacity, R(1)))

\* the neighbourhoods of the proposal's arguments
HoodOf(n) ==
    KHopSeen(heap[ref.G], {n}, {n}, call.args.k_hops) \cap DOMAIN nodes_df

\* no pair (a in Nu, b in Nv) passes the adjacency and distance filters
NoSurvivor ==
    \A a \in HoodOf(call.args.u), b \in HoodOf(call.args.v) :
        ~Survives(heap[ref.G], nodes_df, a, b, call.args.max_straight_m)

RECURSIVE TotalDemand(_)
TotalDemand(pairs) ==
    IF pairs = <<>> THEN R(0) ELSE RAdd(Head(pairs)[3], TotalDemand(Tail(pairs)))

GenReturned == call.op = "generate_od" /\ call.pc = "returned"

\* C11 as stated: for every n_pairs >= 0, the demands
\* generate_od_weighted_total returns sum to total_demand_vph.
C11_DemandsSumToTotal ==
    GenReturned => TotalDemand(call.ret) = call.args.total_demand_vph

\* C11 amended: for every n_pairs >= 1 the returned demands sum to
\* total_demand_vph; for n_pairs = 0 the returned list is empty.
C11_DemandsSumToTotalWhenPairs ==
    GenReturned =>
        /\ Len(call.ret) = call.args.n_pairs
        /\ call.args.n_pairs >= 1 => TotalDemand(call.ret) = call.args.total_demand_vph

\* C11 witness: two pairs with different raw demands, scaled to a positive total.
C11_Witness ==
    /\ GenReturned /\ call.args.n_pairs >= 2
    /\ RLt(R(0), call.args.total_demand_vph)
    /\ call.ret[1][3] # call.ret[2][3]
    /\ call.ret[1][3] # call.args.draws[1].r

\* out is pairs with every demand multiplied by f
ScaledBy(out, pairs, f) ==
    /\ Len(out) = Len(pairs)
    /\ \A i \in 1..Len(pairs) :
         /\ out[i][1] = pairs[i][1] /\ out[i][2] = pairs[i][2]
         /\ out[i][3] = RMul(pairs[i][3], f)

\* C12: scale_od(od, f) has the pairs of od in their order with every
\* demand multiplied by f, so its total demand is f times that of od;
\* scale_od(od, 1.0) = od; scaling by f1 and then by f2 gives the list
\* scaled once by f1 * f2.
C12_ScaleOdIsLinear ==
    (call.op = "scale_od" /\ call.pc # "pending") =>
        /\ ScaledBy(call.ret[1], call.args.od, call.args.f1)
        /\ TotalDemand(call.ret[1]) = RMul(TotalDemand(call.args.od), call.args.f1)
        /\ call.args.f1 = R(1) => call.ret[1] = call.args.od
        /\ call.pc = "returned" =>
             ScaledBy(call.ret[2], call.args.od, RMul(call.args.f1, call.args.f2))

\* C12 witness: a list of several pairs scaled twice by factors other than 0 and 1.
C12_Witness ==
    /\ call.op = "scale_od" /\ call.pc = "returned"
    /\ Len(call.args.od) >= 2
    /\ {call.args.f1, call.args.f2} \cap {R(0), R(1)} = {}
    /\ call.ret[2] # call.ret[1] /\ call.ret[1] # call.args.od

\* C13: every network msa_traffic_assignment returns has total delay >= 0.
C13_TotalDelayNonNegative ==
    Solved => RLe(R(0), total_delay(Target))

\* C13 witness: a returned network on which congestion causes delay.
C13_Witness ==
    Solved /\ RLt(R(0), total_delay(Target))

\* x ranks before y: delay contribution descending, then volume/capacity
\* descending, then edge identifier ascending
Outranks(x, y) ==
    \/ RLt(y.delay, x.delay)
    \/ x.delay = y.delay /\ RLt(y.v_c, x.v_c)
    \/ /\ x.delay = y.delay /\ x.v_c = y.v_c
       /\ <<x.u, x.v, x.key>> # <<y.u, y.v, y.key>>
       /\ \/ x.u < y.u
          \/ x.u = y.u /\ x.v < y.v
          \/ x.u = y.u /\ x.v = y.v /\ x.key < y.key

\* C14: the bottleneck ranking of a solved network has at most N rows, one
\* per edge, each with the edge's flow * (time - t0), in ranking order; no
\* edge left out ranks before a listed one; and re-sorting the ranking
\* leaves its order unchanged.
C14_BottleneckRankingIsSorted ==
    /\ call.op = "top_bottlenecks" =>
         LET rows == call.ret
             ids  == {<<rows[i].u, rows[i].v, rows[i].key>> : i \in 1..Len(rows)}
         IN  /\ Len(rows) <= call.args.n
             /\ Len(rows) = call.args.n \/ ids = Edges(Target)
             /\ Cardinality(ids) = Len(rows) /\ ids \subseteq Edges(Target)
             /\ \A i \in 1..Len(rows) :
                  rows[i].delay = DelayContribution(Target.data[<<rows[i].u, rows[i].v, rows[i].key>>])
             /\ \A i, j \in 1..Len(rows) : i < j => Outranks(rows[i], rows[j])
             /\ \A e \in Edges(Target) \ ids, i \in 1..Len(rows) :
                  Outranks(rows[i], BottleneckRow(Target, e))
    /\ call.op = "sort_values" =>
         call.ret = Head_(call.args.btn, TOP_N_BOTTLENECKS)

\* C14 witness: a ranking of a congested network cut off at N, holding rows
\* that tie on delay and on volume/capacity, re-sorted.
C14_Witness ==
    /\ call.op = "sort_values" /\ Len(call.ret) >= 2
    /\ Len(call.ret) < Cardinality(Edges(Target))
    /\ \E i \in 1..Len(call.ret) : RLt(R(0), call.ret[i].delay)
    /\ \E i, j \in 1..Len(call.ret) :
         i # j /\ call.ret[i].delay = call.ret[j].delay /\ call.ret[i].v_c = call.ret[j].v_c

\* C15: add_freeflow_time_and_capacity returns whatever the raw attribute
\* values are, and afterwards every edge has t0 > 0, capacity > 0,
\* time > 0 and time >= t0.
C15_InitializedAttributesArePositive ==
    (call.op = "add_freeflow_time_and_capacity" /\ call.pc # "pending") =>
        /\ call.pc = "returned"
        /\ \A e \in Edges(heap[1]) :
             LET d == heap[1].data[e]
             IN  /\ d.t0 # None /\ d.capacity # None /\ d.time # None
                 /\ RLt(R(0), d.t0) /\ RLt(R(0), d.capacity)
                 /\ RLt(R(0), d.time) /\ RLe(d.t0, d.time)

ReadOnlyOps == {"all_or_nothing_assignment", "propose", "relief"}

\* C16: a step in which all_or_nothing_assignment, propose_connector_near_edge
\* or shortest_path_relief_connectors runs leaves every network (node set,
\* edge set, every edge attribute) as it was.
C16_ReadOnlyComponentsLeaveNetwork ==
    [][call'.op \in ReadOnlyOps => heap' = heap]_vars

\* C16 witness: the relief search returned candidates found on a solved
\* network that carries flow.
C16_Witness ==
    /\ call.op = "relief" /\ call.ret # <<>>
    /\ \E e \in Edges(Target) : RLt(R(0), Get(Target.data[e].flow, R(0)))


\* C17: in a scenario run every reported delta is the scenario's value minus
\* a baseline value, and the baseline value is one that solving the base
\* network with the OD list of the run (the list the scenarios are solved
\* with) gives, whichever way the baseline was loaded.
C17_DeltaIsAgainstBaselineOfSameOd ==
    call.op = "run_scenarios" =>
      \A i \in DOMAIN call.ret.results_rows :
        LET row == call.ret.results_rows[i]
        IN  /\ row.delta_delay = RSub(row.delay, row.baseline_delay)
            /\ row.baseline_delay \in
                 SolvedDelays(heap[ref.G], od, MaxIters, settings.alpha, settings.beta)


\* <<bottleneck u, bottleneck v, connector a, connector b>> of the rows
RowsOf(rows) ==
    {<<rows[i].baseline_bottleneck_u, rows[i].baseline_bottleneck_v,
       rows[i].connector_a, rows[i].connector_b>> : i \in DOMAIN rows}

\* the undirected connectors of the rows
ConnectorsOf(rows) == {{rows[i].connector_a, rows[i].connector_b} : i \in DOMAIN rows}

\* the sweep as the loop runs it, in the order of the table
SweepInOrder ==
    {t \in SweepFrom(SweepState(<<>>, {}, "none", None), 1, call.args) : t.err = "none"}

\* the base network and the OD list are those the run loaded
SweepInputsUnchanged ==
    call.op = "bottleneck_bypass" =>
      /\ heap[ref.G] = call.args.G
      /\ od = call.args.od
      /\ nodes_df = call.args.nodes

\* C18 as stated: in the connector sweep the base network and the OD list
\* are unchanged after every iteration, and when the sweep has returned the
\* set of rows (which bottleneck yields which connector) is the one the
\* loop gives in the order of the table, whatever order the bottlenecks
\* were processed in.
C18_SweepRowsIndependentOfOrder ==
    /\ SweepInputsUnchanged
    /\ (call.op = "bottleneck_bypass" /\ call.pc = "returned") =>
         RowsOf(call.ret.st.results_rows) \in {RowsOf(t.results_rows) : t \in SweepInOrder}

\* C18 amended: the base network and the OD list are unchanged after every
\* iteration, but the iterations share seen_connectors: no undirected
\* connector is in two rows, and when the sweep has returned the set of
\* connectors tested is the one the loop gives in the order of the table;
\* which bottleneck a connector's row belongs to depends on the order.
C18_SweepConnectorsIndependentOfOrder ==
    /\ SweepInputsUnchanged
    /\ call.op = "bottleneck_bypass" =>
         LET rows == call.ret.st.results_rows
         IN  /\ \A i, j \in DOMAIN rows :
                  {rows[i].connector_a, rows[i].connector_b} =
                  {rows[j].connector_a, rows[j].connector_b} => i = j
             /\ call.pc = "returned" =>
                  ConnectorsOf(rows) \in {ConnectorsOf(t.results_rows) : t \in SweepInOrder}

\* a sweep has returned in which a bottleneck was skipped because its
\* connector had been tested for a bottleneck further down the table
C18_Witness ==
    /\ call.op = "bottleneck_bypass" /\ call.pc = "returned"
    /\ \E i \in call.ret.done, j \in DOMAIN call.ret.st.results_rows :
         LET row == call.ret.st.results_rows[j]
             pr  == propose_connector_near_edge(heap[ref.G], nodes_df, call.args.btn_top[i].u,
                                                call.args.btn_top[i].v, call.args.k_hops,
                                                R(300), 800)
         IN  /\ i < row.i
             /\ pr.err = "none"
             /\ {pr.spec.a, pr.spec.b} = {row.connector_a, row.connector_b}


\* C19: a call of add_freeflow_time_and_capacity leaves the capacity of
\* every edge that already carries one (from the source data or from a
\* scenario) and the t0 of every edge that already carries one unchanged.
C19_InitializationKeepsCapacityAndT0 ==
    [][(call.op = "add_freeflow_time_and_capacity" /\ call.pc = "pending") =>
         \A e \in Edges(heap[1]) :
           /\ heap[1].data[e].capacity # None =>
                heap'[1].data[e].capacity = heap[1].data[e].capacity
           /\ heap[1].data[e].t0 # None => heap'[1].data[e].t0 = heap[1].data[e].t0]_vars


\* C20: iteration k of msa_traffic_assignment gives every edge the time of
\* its flow from iteration k-1, routes aux on those times and leaves every
\* edge with (k * flow + aux) / (k + 1), aux being 0 for an edge without
\* auxiliary flow; the count k starts at 0, goes up by one per iteration and
\* the call returns when, and only when, k = iters.
C20_MsaIterationAveragesFlows ==
    [][/\ (call'.op = "msa" /\ call'.pc = "loop" /\ call.pc # "loop") => call'.args.k = 0
       /\ (call.pc = "loop" /\ call'.pc = "loop") =>
            LET G  == heap[ref[call.var]]
                G1 == heap'[ref[call.var]]
                k  == call.args.k
            IN  /\ k < call.args.iters /\ call'.args.k = k + 1
                /\ call'.args.iters = call.args.iters
                /\ \A e \in Edges(G) :
                     G1.data[e].time =
                       bpr_time(G.data[e].t0, G.data[e].flow, G.data[e].capacity,
                                call.args.alpha, call.args.beta)
                /\ \E out \in all_or_nothing_assignment(G1, od) :
                     /\ out.err = "none"
                     /\ \A e \in Edges(G) :
                          RMul(G1.data[e].flow, R(k + 1)) =
                          RAdd(RMul(G.data[e].flow, R(k)),
                               IF e \in DOMAIN out.aux THEN out.aux[e] ELSE R(0))
       /\ (call.pc = "loop" /\ call'.pc = "returned") => call.args.k = call.args.iters]_vars

\* a solve has run all its iterations and left the demand of an origin
\* split over two edges: an edge loaded in one iteration was without
\* auxiliary flow in a later one
C20_Witness ==
    /\ call.op = "msa" /\ call.pc = "returned" /\ call.args.k = MaxIters
    /\ \E e, g \in Edges(Target) :
         /\ e # g /\ e[1] = g[1]
         /\ RLt(R(0), Target.data[e].flow)
         /\ RLt(R(0), Target.data[g].flow)


\* C21: a solve starts from flow = 0 and time = t0 on every edge, whatever
\* the input network carried: when the loop of msa_traffic_assignment is
\* entered (k = 0, nothing routed yet) every edge has flow 0 and time t0, so
\* that the first routing step works on free-flow times.
C21_SolveStartsFromFreeFlow ==
    (call.op = "msa" /\ call.pc = "loop" /\ call.args.k = 0) =>
      \A e \in Edges(Target) :
        /\ Target.data[e].flow = R(0)
        /\ Target.data[e].time = Target.data[e].t0


\* C22: when msa_traffic_assignment has returned, for any iters >= 0, the
\* time of every edge is the cost function applied to the flow, capacity
\* and t0 the edge is returned with.
C22_ReturnedTimesMatchFinalFlows ==
    (call.op = "msa" /\ call.pc = "returned") =>
      \A e \in Edges(Target) :
        Target.data[e].time =
          bpr_time(Target.data[e].t0, Target.data[e].flow, Target.data[e].capacity,
                   call.args.alpha, call.args.beta)

\* a solve of at least two iterations has returned a congested edge whose
\* flow the last iteration changed
C22_Witness ==
    /\ call.op = "msa" /\ call.pc = "returned" /\ call.args.k >= 2
    /\ call.args.alpha # R(0)
    /\ \E e \in Edges(Target) :
         /\ RLt(Target.data[e].t0, Target.data[e].time)
         /\ \E g \in Edges(Target) :
              g # e /\ g[1] = e[1] /\ RLt(R(0), Target.data[g].flow)


\* edge e is the edge a hop of path p loads: it joins two consecutive nodes
\* of p and no parallel edge has a lower time, nor the same time and a lower
\* key
CarriesHopOf(G, e, p) ==
    /\ \E j \in 1..(Len(p) - 1) : e[1] = p[j] /\ e[2] = p[j + 1]
    /\ \A k \in Keys(G, e[1], e[2]) :
         LET other == G.data[<<e[1], e[2], k>>].time
         IN  /\ RLe(G.data[e].time, other)
             /\ other = G.data[e].time => e[3] <= k

\* C23: for the edge times of the network, all_or_nothing_assignment returns
\* on each edge the sum of the demands of the OD pairs whose minimum-time
\* path (one per pair) has a hop that the edge carries, the edge of a hop
\* being the minimum-time one of the parallel edges; a pair with origin =
\* destination loads no edge and edges no path uses are absent (0).
C23_AuxIsSumOfPathDemands ==
    (call.op = "all_or_nothing_assignment" /\ call.pc = "returned") =>
      LET G      == heap[ref.G]
          aux    == call.ret
          routed == {i \in DOMAIN od : od[i][1] \in G.nodes /\ od[i][2] \in G.nodes}
          paths  == UNION {ShortestPaths(G, od[i][1], od[i][2], "time") : i \in routed}
      IN  \E route \in [routed -> paths] :
            /\ \A i \in routed : route[i] \in ShortestPaths(G, od[i][1], od[i][2], "time")
            /\ \A e \in Edges(G) :
                 (IF e \in DOMAIN aux THEN aux[e] ELSE R(0)) =
                 RSumOver(routed, [i \in routed |->
                                     IF CarriesHopOf(G, e, route[i]) THEN od[i][3] ELSE R(0)])
            /\ DOMAIN aux \subseteq Edges(G)

\* the routing step has returned for a list with a pair from a node to
\* itself, having loaded one of two parallel edges of unequal time
C23_Witness ==
    /\ call.op = "all_or_nothing_assignment" /\ call.pc = "returned"
    /\ \E i \in DOMAIN od : od[i][1] = od[i][2] /\ od[i][1] \in heap[ref.G].nodes
    /\ \E e \in DOMAIN call.ret :
         /\ RLt(R(0), call.ret[e])
         /\ \E k \in Keys(heap[ref.G], e[1], e[2]) :
              k < e[3] /\ RLt(heap[ref.G].data[e].time,
                              heap[ref.G].data[<<e[1], e[2], k>>].time)


\* the pairs <<a, b>>, a in Nu and b in Nv, that pass the adjacency and
\* distance filters of the returned call of propose_connector_near_edge
Survivors ==
    LET G  == heap[ref.G]
        Nu == k_hop_neighborhood(G, nodes_df, call.args.u, call.args.k_hops)
        Nv == k_hop_neighborhood(G, nodes_df, call.args.v, call.args.k_hops)
    IN  {x \in {<<Nu[i], Nv[j]>> : i \in DOMAIN Nu, j \in DOMAIN Nv} :
           Survives(G, nodes_df, x[1], x[2], call.args.max_straight_m)}

\* the survivors the double loop reaches before it has checked max_pairs of
\* them: it visits a ascending and, for each a, b ascending
ScannedSurvivors ==
    {x \in Survivors :
       Cardinality({y \in Survivors : y[1] < x[1] \/ (y[1] = x[1] /\ y[2] < x[2])})
         < (IF call.args.max_pairs < 1 THEN 1 ELSE call.args.max_pairs)}

\* the returned connector is the best of the pairs of S: none of S has a
\* higher score (detour time / max(10, distance), the detour of a pair
\* without a path being 10000), nor the same score and a lower a, or the
\* same a and a lower b
ReturnsBestOf(S) ==
    LET G        == heap[ref.G]
        Score(x) == RDiv(DetourSec(G, x[1], x[2]), RMax(R(10), Straight(nodes_df, x[1], x[2])))
        best     == <<call.ret.a, call.ret.b>>
    IN  /\ best \in S
        /\ \A x \in S :
             \/ RLt(Score(x), Score(best))
             \/ Score(x) = Score(best) /\ best[1] < x[1]
             \/ Score(x) = Score(best) /\ best[1] = x[1] /\ best[2] <= x[2]

\* C24 as stated: when a candidate survives, propose_connector_near_edge
\* returns the best-scored pair among ALL the pairs that pass the filters.
C24_ReturnsBestOfAllSurvivors ==
    (call.op = "propose" /\ call.pc = "returned" /\ Survivors # {}) =>
      ReturnsBestOf(Survivors)

\* C24 amended: it returns the best-scored pair among the first max_pairs
\* pairs that pass the filters, in the order the double loop visits them.
C24_ReturnsBestOfScannedSurvivors ==
    (call.op = "propose" /\ call.pc = "returned" /\ Survivors # {}) =>
      ReturnsBestOf(ScannedSurvivors)

\* a call has returned a pair that no path joins and that is not the first
\* survivor of the scan: several pairs were scored and the score decided
C24_Witness ==
    /\ call.op = "propose" /\ call.pc = "returned"
    /\ Cardinality(ScannedSurvivors) >= 2
    /\ NxShortestPath(heap[ref.G], call.ret.a, call.ret.b, "t0").err # "none"
    /\ \E x \in ScannedSurvivors :
         x[1] < call.ret.a \/ (x[1] = call.ret.a /\ x[2] < call.ret.b)


\* the nodes at most k undirected hops from n
RECURSIVE Ball(_, _, _)
Ball(G, n, k) ==
    IF k <= 0 THEN {n}
    ELSE LET B == Ball(G, n, k - 1)
         IN  B \cup {m \in G.nodes : \E x \in B : HasEdge(G, x, m) \/ HasEdge(G, m, x)}

\* C25: a connector (a, b) that propose_connector_near_edge returns and that
\* is not the fallback (u, v) has a within k_hops undirected hops of u, b
\* within k_hops undirected hops of v, a # b, no edge a -> b and no edge
\* b -> a, and a length that is the straight-line distance of a and b and is
\* at most max_straight_m.
C25_ProposedConnectorIsAdmissible ==
    (/\ call.op = "propose" /\ call.pc = "returned"
     /\ <<call.ret.a, call.ret.b>> # <<call.args.u, call.args.v>>) =>
      LET G == heap[ref.G]
          a == call.ret.a
          b == call.ret.b
      IN  /\ a \in Ball(G, call.args.u, call.args.k_hops)
          /\ b \in Ball(G, call.args.v, call.args.k_hops)
          /\ a # b
          /\ \A e \in Edges(G) : <<e[1], e[2]>> # <<a, b>> /\ <<e[1], e[2]>> # <<b, a>>
          /\ call.ret.length_m =
               _haversine_m(nodes_df[a][1], nodes_df[a][2], nodes_df[b][1], nodes_df[b][2])
          /\ RLe(call.ret.length_m, call.args.max_straight_m)

\* a call has returned a connector other than the fallback that ends at a
\* node found by the expansion, neither u nor v
C25_Witness ==
    /\ call.op = "propose" /\ call.pc = "returned" /\ call.args.k_hops >= 1
    /\ <<call.ret.a, call.ret.b>> # <<call.args.u, call.args.v>>
    /\ {call.ret.a, call.ret.b} \ {call.args.u, call.args.v} # {}


\* the OD pairs shortest_path_relief_connectors routes, and the choices of
\* one minimum-time path for each of them
ReliefRouted ==
    {i \in DOMAIN od :
       /\ od[i][1] \in heap[ref.G].nodes /\ od[i][2] \in heap[ref.G].nodes
       /\ ShortestPaths(heap[ref.G], od[i][1], od[i][2], "time") # {}}

ReliefRoutes ==
    {route \in [ReliefRouted ->
                  UNION {ShortestPaths(heap[ref.G], od[i][1], od[i][2], "time") :
                           i \in ReliefRouted}] :
       \A i \in ReliefRouted :
         route[i] \in ShortestPaths(heap[ref.G], od[i][1], od[i][2], "time")}

\* the window positions <<i, first, last>>: OD pair i, whose path crosses
\* the bottleneck edge at some hop h, and the positions first = h - back and
\* last = h + 1 + fwd of its path, 1 <= back <= k_back, 1 <= fwd <= k_fwd
ReliefPositions(route) ==
    {w \in UNION {{<<i, x, y>> : x \in 1..Len(route[i]), y \in 1..Len(route[i])} :
                    i \in ReliefRouted} :
       \E h \in 1..(Len(route[w[1]]) - 1) :
         /\ route[w[1]][h] = call.args.bottleneck_u
         /\ route[w[1]][h + 1] = call.args.bottleneck_v
         /\ h - w[2] \in 1..call.args.k_back
         /\ w[3] - (h + 1) \in 1..call.args.k_fwd}

\* saved = subpath_time - connector_time of a window position
ReliefSaved(route, w) ==
    LET path == route[w[1]]
    IN  RSub(PathCost(heap[ref.G], SubSeq(path, w[2], w[3]), "time"),
             RDiv(Straight(nodes_df, path[w[2]], path[w[3]]),
                  RMax(R(1), RDiv(RMul(call.args.speed_kph, R(1000)), R(3600)))))

\* the number of hits h and (back, fwd) that give the window position w
ReliefTimes(route, w) ==
    Cardinality({h \in 1..(Len(route[w[1]]) - 1) :
                   /\ route[w[1]][h] = call.args.bottleneck_u
                   /\ route[w[1]][h + 1] = call.args.bottleneck_v
                   /\ h - w[2] \in 1..call.args.k_back
                   /\ w[3] - (h + 1) \in 1..call.args.k_fwd})

\* the sum of demand * saved over the window positions that resolve to the
\* undirected pair ab and save time
ReliefScore(route, ab) ==
    LET W == {w \in ReliefPositions(route) :
                /\ {route[w[1]][w[2]], route[w[1]][w[3]]} = ab
                /\ RLt(R(0), ReliefSaved(route, w))}
    IN  RSumOver(W, [w \in W |->
                       RMul(R(ReliefTimes(route, w)),
                            RMul(od[w[1]][3], ReliefSaved(route, w)))])

\* C26: the score of every candidate shortest_path_relief_connectors returns
\* is the sum of demand * saved over the OD pairs whose minimum-time path
\* crosses the bottleneck edge and over the window positions of that path
\* that resolve to the candidate's undirected pair, counting saved > 0 only;
\* pairs that do not cross the bottleneck or have no path add nothing.
C26_ReliefScoreIsAggregatedSaving ==
    (call.op = "relief" /\ call.pc = "returned") =>
      \E route \in ReliefRoutes :
        \A i \in DOMAIN call.ret :
          call.ret[i].score =
            ReliefScore(route, {call.ret[i].spec.a, call.ret[i].spec.b})

\* a call has returned a candidate whose score two OD pairs contribute to
C26_Witness ==
    /\ call.op = "relief" /\ call.pc = "returned" /\ call.ret # <<>>
    /\ \E route \in ReliefRoutes, i \in DOMAIN call.ret :
         \E w, x \in ReliefPositions(route) :
           /\ w[1] # x[1]
           /\ {route[w[1]][w[2]], route[w[1]][w[3]]} = {call.ret[i].spec.a, call.ret[i].spec.b}
           /\ {route[x[1]][x[2]], route[x[1]][x[3]]} = {call.ret[i].spec.a, call.ret[i].spec.b}
           /\ RLt(R(0), ReliefSaved(route, w)) /\ RLt(R(0), ReliefSaved(route, x))


\* the undirected pair of a returned candidate
ReliefPairOf(row) == {row.spec.a, row.spec.b}

\* the undirected pairs some window position resolves to with saved > 0
ReliefPairs(route) ==
    {{route[w[1]][w[2]], route[w[1]][w[3]]} :
       w \in {x \in ReliefPositions(route) : RLt(R(0), ReliefSaved(route, x))}}

\* C27: shortest_path_relief_connectors returns at most per_bottleneck_max
\* candidates, by score descending, every undirected pair at most once and
\* every score > 0, and no candidate that is left out scores higher than
\* one that is returned.
C27_ReliefReturnsTopScored ==
    (call.op = "relief" /\ call.pc = "returned") =>
      LET ret == call.ret
      IN  /\ Len(ret) <= call.args.per_bottleneck_max
          /\ \A i, j \in DOMAIN ret : i < j => RLe(ret[j].score, ret[i].score)
          /\ \A i, j \in DOMAIN ret : i # j => ReliefPairOf(ret[i]) # ReliefPairOf(ret[j])
          /\ \A i \in DOMAIN ret : RLt(R(0), ret[i].score)
          /\ \E route \in ReliefRoutes :
               \A ab \in ReliefPairs(route) \ {ReliefPairOf(ret[i]) : i \in DOMAIN ret} :
                 \A i \in DOMAIN ret : RLe(ReliefScore(route, ab), ret[i].score)


\* the sum of the demands of the OD list
SumOfDemands == RSumOver(DOMAIN od, [i \in DOMAIN od |-> od[i][3]])

\* C28: after every iteration of msa_traffic_assignment, the flow of every
\* edge is at least 0 and at most the sum of the demands of the OD list.
C28_FlowWithinTotalDemand ==
    (call.op = "msa" /\ call.pc \in {"loop", "returned"} /\ call.args.k >= 1) =>
      \A e \in Edges(heap[ref[call.var]]) :
        /\ RLe(R(0), heap[ref[call.var]].data[e].flow)
        /\ RLe(heap[ref[call.var]].data[e].flow, SumOfDemands)

\* between two iterations one edge carries the whole demand of the list,
\* another edge of the same network carries none of it
C28_Witness ==
    /\ call.op = "msa" /\ call.pc = "loop" /\ call.args.k = 1 /\ Len(od) > 1
    /\ RLt(R(0), SumOfDemands)
    /\ \E e, g \in Edges(heap[ref[call.var]]) :
         /\ heap[ref[call.var]].data[e].flow = SumOfDemands
         /\ heap[ref[call.var]].data[g].flow = R(0)


\* every OD pair has both endpoints in the network and a path between them
EveryPairRoutable(G) ==
    \A i \in DOMAIN od :
      /\ od[i][1] \in G.nodes /\ od[i][2] \in G.nodes
      /\ ShortestPaths(G, od[i][1], od[i][2], "time") # {}

\* flow leaving node n minus flow entering it
NetOutflow(G, n) ==
    LET out == {e \in Edges(G) : e[1] = n}
        inc == {e \in Edges(G) : e[2] = n}
    IN  RSub(RSumOver(out, [e \in out |-> G.data[e].flow]),
             RSumOver(inc, [e \in inc |-> G.data[e].flow]))

\* demand originating at node n minus demand terminating at it
NetDemand(n) ==
    LET orig == {i \in DOMAIN od : od[i][1] = n}
        term == {i \in DOMAIN od : od[i][2] = n}
    IN  RSub(RSumOver(orig, [i \in orig |-> od[i][3]]),
             RSumOver(term, [i \in term |-> od[i][3]]))

\* C29: when every OD pair is routable, after one or more iterations of
\* msa_traffic_assignment the flow leaving each node minus the flow entering
\* it equals the demand originating at the node minus the demand
\* terminating at it.
C29_FlowConservedAtEveryNode ==
    (/\ call.op = "msa" /\ call.pc \in {"loop", "returned"} /\ call.args.k >= 1
     /\ EveryPairRoutable(heap[ref[call.var]])) =>
      \A n \in heap[ref[call.var]].nodes :
        NetOutflow(heap[ref[call.var]], n) = NetDemand(n)

\* a solve of two iterations has returned and left the demand of an origin
\* on more than one route, through a node where nothing starts or ends
C29_Witness ==
    /\ call.op = "msa" /\ call.pc = "returned" /\ call.args.k >= 2
    /\ EveryPairRoutable(heap[ref[call.var]])
    /\ \E n \in heap[ref[call.var]].nodes :
         /\ NetDemand(n) = R(0)
         /\ \A i \in DOMAIN od : od[i][1] # n /\ od[i][2] # n
         /\ \E e \in Edges(heap[ref[call.var]]) :
              e[2] = n /\ RLt(R(0), heap[ref[call.var]].data[e].flow)
    /\ \E e, g \in Edges(heap[ref[call.var]]) :
         /\ e[1] = g[1] /\ e # g
         /\ RLt(R(0), heap[ref[call.var]].data[e].flow)
         /\ RLt(R(0), heap[ref[call.var]].data[g].flow)


\* a call whose arguments pass the checks of lines 133-139
GenPremise ==
    /\ call.op = "generate_od" /\ call.pc = "pending"
    /\ call.args.n_pairs >= 0 /\ RLe(R(0), call.args.total_demand_vph)
    /\ Cardinality(heap[1].nodes) >= 2

\* C30: generate_od_weighted_total called on a graph of two or more nodes
\* with n_pairs >= 0, a total demand >= 0 and non-negative weights of
\* positive sum (weights that are positive for a single node included)
\* returns, and every pair it returns has origin # destination.
C30_GenerateOdTerminates ==
    /\ GenPremise ~> GenReturned
    /\ [](GenReturned => \A i \in DOMAIN call.ret : call.ret[i][1] # call.ret[i][2])

====
